---- MODULE Spec2Model ----
(***************************************************************************)
(* Model of the Tempest view-intelligence engine: the tree-sitter syntax   *)
(* tree handed to the engine, the traversal primitives (AstTraversal), the *)
(* import resolver (ImportAnalyzer), the call extractor                    *)
(* (FunctionCallAnalyzer) and the correlator (ViewIntelligence).           *)
(*                                                                         *)
(* Source text is a string of bytes; the one-character string "~" stands   *)
(* for a UTF-8 continuation byte (0x80..0xBF), every other character for a *)
(* byte that starts a character.                                           *)
(***************************************************************************)
EXTENDS Integers, Sequences, FiniteSets, TLC

(***************************************************************************)
(* Bounds of the model.                                                    *)
(***************************************************************************)
\* most use declarations in a document
MaxUses == 2
\* most call statements in a document
MaxCalls == 1
\* most import statements and most call statements in a document whose calls
\* are correlated spelling by spelling
MaxImports == 2
MaxSpellings == 4
\* most call statements in a document analysed with a text other than the
\* one its tree was parsed from
MaxStale == 3
\* most nodes of a tree walked one cursor move at a time
MaxNodes == 5
\* most call statements in a document whose calls start on different lines
MaxLines == 3
\* most notifications the language server receives
MaxNotifications == 3
\* most notifications whose handlers interleave
MaxInterleaved == 2

(***************************************************************************)
(* Results (Rust's Result<T, ViewAnalysisError>).                          *)
(***************************************************************************)
Ok(v) == [ok |-> TRUE, val |-> v]

Err(e) == [ok |-> FALSE, err |-> e]

\* a panic that unwinds out of the engine: the call returns neither Ok nor Err
Panic == [ok |-> FALSE, err |-> "panic"]

IsPanic(r) == ~r.ok /\ r.err = "panic"

(***************************************************************************)
(* Strings.                                                                *)
(***************************************************************************)
RECURSIVE Rep(_, _)
Rep(s, n) == IF n = 0 THEN "" ELSE s \o Rep(s, n - 1)

\* str::starts_with
StartsWith(s, p) == Len(s) >= Len(p) /\ SubSeq(s, 1, Len(p)) = p

\* char::is_whitespace, on the bytes the model uses
IsWhitespace(c) == c \in {" ", "\n", "\t", "\r"}

\* str::trim_start
RECURSIVE TrimStart(_)
TrimStart(s) ==
    IF Len(s) > 0 /\ IsWhitespace(SubSeq(s, 1, 1))
    THEN TrimStart(SubSeq(s, 2, Len(s)))
    ELSE s

\* [String]::join
RECURSIVE Join(_, _)
Join(parts, sep) ==
    IF parts = <<>> THEN ""
    ELSE IF Len(parts) = 1 THEN parts[1]
    ELSE parts[1] \o sep \o Join(Tail(parts), sep)

(***************************************************************************)
(* Syntax trees.  A shape is a tree before layout: a token (tok # "") or   *)
(* an inner node (kids # <<>>), preceded by nl line breaks and sp spaces.  *)
(* Layout places a shape at a byte offset and a row and yields the node    *)
(* tree_sitter::Node shows: kind, field name in its parent, start and end  *)
(* byte, start row, children.                                              *)
(***************************************************************************)
Tok(kind, s) ==
    [kind |-> kind, field |-> "", nl |-> 0, sp |-> 0, tok |-> s, kids |-> <<>>]

\* an anonymous token: its kind is its text
Sym(s) == Tok(s, s)

Nd(kind, kids) ==
    [kind |-> kind, field |-> "", nl |-> 0, sp |-> 0, tok |-> "", kids |-> kids]

Sp(sh) == [sh EXCEPT !.sp = 1]

Nl(sh) == [sh EXCEPT !.nl = 1]

Fld(f, sh) == [sh EXCEPT !.field = f]

RECURSIVE Layout(_, _, _, _), LayoutKids(_, _, _, _, _)
Layout(sh, pos, row, path) ==
    LET start == pos + sh.nl + sh.sp
        row0 == row + sh.nl
        pre == Rep("\n", sh.nl) \o Rep(" ", sh.sp)
    IN  IF sh.kids = <<>>
        THEN [node |-> [id |-> path, kind |-> sh.kind, field |-> sh.field,
                        sb |-> start, eb |-> start + Len(sh.tok),
                        row |-> row0, kids |-> <<>>],
              text |-> pre \o sh.tok,
              eb |-> start + Len(sh.tok),
              row |-> row0]
        ELSE LET Around(r) ==
                     [node |-> [id |-> path, kind |-> sh.kind, field |-> sh.field,
                                sb |-> start, eb |-> r.eb,
                                row |-> row0, kids |-> r.nodes],
                      text |-> pre \o r.text,
                      eb |-> r.eb,
                      row |-> r.row]
             IN  Around(LayoutKids(sh.kids, 1, start, row0, path))

LayoutKids(shs, i, pos, row, path) ==
    IF i > Len(shs)
    THEN [nodes |-> <<>>, text |-> "", eb |-> pos, row |-> row]
    ELSE LET Cons(h, t) ==
                 [nodes |-> <<h.node>> \o t.nodes, text |-> h.text \o t.text,
                  eb |-> t.eb, row |-> t.row]
             After(h) == Cons(h, LayoutKids(shs, i + 1, h.eb, h.row, path))
         IN  After(Layout(shs[i], pos, row, Append(path, i)))

(***************************************************************************)
(* AstTraversal (ast_traversal.rs).  A node handle is the node record; its *)
(* id is the path of child indexes from the root, which is also the        *)
(* position of a TreeCursor.                                               *)
(***************************************************************************)
RECURSIVE NodeAt(_, _)
NodeAt(root, path) ==
    IF path = <<>> THEN root
    ELSE NodeAt(root.kids[Head(path)], Tail(path))

Front(s) == SubSeq(s, 1, Len(s) - 1)

\* a byte offset lies on a character boundary of the text
IsCharBoundary(text, i) ==
    i = Len(text) \/ (i < Len(text) /\ SubSeq(text, i + 1, i + 1) # "~")

\* extract_node_text that leaves out the last byte of the node
extract_node_text_short(node, text) ==
    IF IsCharBoundary(text, node.sb) /\ IsCharBoundary(text, node.eb)
    THEN Ok(SubSeq(text, node.sb + 1, node.eb - 1))
    ELSE Err("TextExtractionError")

\* Node::utf8_text, which slices the text at the span of the node and panics
\* when the span ends after the text, mapped to TextExtractionError
extract_node_text(node, text) ==
    IF node.eb > Len(text)
    THEN Panic
    ELSE IF IsCharBoundary(text, node.sb) /\ IsCharBoundary(text, node.eb)
    THEN Ok(SubSeq(text, node.sb + 1, node.eb))
    ELSE Err("TextExtractionError")

\* TreeCursor::goto_first_child succeeds
HasFirstChild(root, path) == NodeAt(root, path).kids # <<>>

\* TreeCursor::goto_next_sibling succeeds; a cursor never leaves its root
HasNextSibling(root, path) ==
    path # <<>> /\ path[Len(path)] < Len(NodeAt(root, Front(path)).kids)

NextSibling(path) == Append(Front(path), path[Len(path)] + 1)

\* the inner loop `while !cursor.goto_next_sibling()` of find_nodes_by_kind:
\* the position it leaves the cursor at, or Returned when goto_parent fails
\* (child indexes start at 1, so <<0>> is no position)
Returned == <<0>>

RECURSIVE Climb(_, _)
Climb(root, path) ==
    IF HasNextSibling(root, path) THEN NextSibling(path)
    ELSE IF path = <<>> THEN Returned
    ELSE Climb(root, Front(path))

\* Advance that tries goto_next_sibling before goto_first_child
AdvanceSiblingFirst(root, path) ==
    IF HasNextSibling(root, path) THEN NextSibling(path)
    ELSE IF HasFirstChild(root, path) THEN Append(path, 1)
    ELSE Climb(root, path)

\* the cursor moves of one iteration of the outer loop of find_nodes_by_kind
Advance(root, path) ==
    IF HasFirstChild(root, path) THEN Append(path, 1) ELSE Climb(root, path)

\* the cursor positions of the next n iterations of the outer loop, from
\* position c on; fewer than n when the function returns before
RECURSIVE Iterations(_, _, _)
Iterations(root, c, n) ==
    IF c = Returned \/ n = 0 THEN <<>>
    ELSE IF n = 1 THEN <<c>>
    ELSE LET h == n \div 2
             Then(a) ==
                 IF Len(a) < h THEN a
                 ELSE a \o Iterations(root, Advance(root, a[h]), n - h)
         IN  Then(Iterations(root, c, h))

\* the cursor positions of all iterations of the outer loop from c on
RECURSIVE AllIterations(_, _, _)
AllIterations(root, c, n) ==
    LET Then(a) ==
            IF Len(a) < n THEN a
            ELSE a \o AllIterations(root, Advance(root, a[n]), 2 * n)
    IN  Then(Iterations(root, c, n))

find_nodes_by_kind(tree, kind) ==
    LET IsKind(path) == NodeAt(tree, path).kind = kind
        Nodes(pushed) == [i \in 1..Len(pushed) |-> NodeAt(tree, pushed[i])]
    IN  Nodes(SelectSeq(AllIterations(tree, <<>>, 1), IsKind))

\* the children handed to the callback of traverse_children, in order
traverse_children(node) == node.kids

\* FindChildFrom that keeps looking after a match: the last child of the kind
RECURSIVE FindChildFromLast(_, _, _)
FindChildFromLast(kids, i, kind) ==
    LET Rest(later) ==
            IF later # <<>> THEN later
            ELSE IF kids[i].kind = kind THEN <<kids[i]>> ELSE <<>>
    IN  IF i > Len(kids) THEN <<>>
        ELSE Rest(FindChildFromLast(kids, i + 1, kind))

\* Option<Node>: <<>> is None, <<n>> is Some(n)
\* the loop of find_child_by_kind from the i-th child on
RECURSIVE FindChildFrom(_, _, _)
FindChildFrom(kids, i, kind) ==
    IF i > Len(kids) THEN <<>>
    ELSE IF kids[i].kind = kind THEN <<kids[i]>>
    ELSE FindChildFrom(kids, i + 1, kind)

find_child_by_kind(node, kind) == FindChildFrom(node.kids, 1, kind)

RECURSIVE FieldChildFrom(_, _, _)
FieldChildFrom(kids, i, f) ==
    IF i > Len(kids) THEN <<>>
    ELSE IF kids[i].field = f THEN <<kids[i]>>
    ELSE FieldChildFrom(kids, i + 1, f)

\* Node::child_by_field_name
child_by_field_name(node, f) == FieldChildFrom(node.kids, 1, f)

(***************************************************************************)
(* PhpParser::parse (tempest-php-parser/src/lib.rs): the concrete syntax   *)
(* tree tree-sitter-php builds for a PHP source.  A source is described by *)
(* its statements; the shapes below follow the grammar's rules for use     *)
(* declarations, names, calls and arguments.                               *)
(***************************************************************************)
\* one imported name: [lead, segs, alias], e.g. \Tempest\view as render
Clause(lead, segs, alias) == [lead |-> lead, segs |-> segs, alias |-> alias]

\* use [function] clause, clause ...;  kw is "none" (class import), "decl"
\* (the `function` token is a child of the declaration) or "clause" (the
\* parser made it the `type` child of the first clause)
UseDecl(kw, clauses) == [t |-> "use", kw |-> kw, clauses |-> clauses]

\* use [function] prefix\{item, item ...};
UseGroup(kw, prefix, items) ==
    [t |-> "group", kw |-> kw, prefix |-> prefix, items |-> items]

\* an argument [name:] expr, on a line of its own or not
Arg(name, expr, nl) == [name |-> name, expr |-> expr, nl |-> nl]

\* callee(arg, arg ...);
CallStmt(lead, segs, args) ==
    [t |-> "call", lead |-> lead, segs |-> segs, args |-> args]

NameSh(s) == Tok("name", s)

\* shs with the token sep between neighbours, a space after each sep
RECURSIVE SepBy(_, _)
SepBy(shs, sep) ==
    IF Len(shs) <= 1 THEN shs
    ELSE LET Spaced(rest) ==
                 <<IF sep = "," THEN Sp(Head(rest)) ELSE Head(rest)>> \o Tail(rest)
         IN  <<Head(shs), Sym(sep)>> \o Spaced(SepBy(Tail(shs), sep))

RECURSIVE NameShs(_)
NameShs(segs) ==
    IF segs = <<>> THEN <<>> ELSE <<NameSh(Head(segs))>> \o NameShs(Tail(segs))

\* namespace_name: name (\ name)*
NamespaceNameSh(segs) == Nd("namespace_name", SepBy(NameShs(segs), "\\"))

\* a bare name, or qualified_name: [\] [namespace_name \] name
QualifiedSh(lead, segs) ==
    LET n == Len(segs)
    IN  IF n = 1 /\ ~lead
        THEN NameSh(segs[1])
        ELSE Nd("qualified_name",
                (IF lead THEN <<Sym("\\")>> ELSE <<>>)
                \o (IF n > 1
                    THEN <<NamespaceNameSh(SubSeq(segs, 1, n - 1)), Sym("\\")>>
                    ELSE <<>>)
                \o <<NameSh(segs[n])>>)

\* namespace_use_clause: [function] (name | qualified_name) [as name]
ClauseSh(kw, c) ==
    Nd("namespace_use_clause",
       (IF kw THEN <<Fld("type", Sym("function")), Sp(QualifiedSh(c.lead, c.segs))>>
        ELSE <<QualifiedSh(c.lead, c.segs)>>)
       \o (IF c.alias # <<>>
           THEN <<Sp(Sym("as")), Sp(Fld("alias", NameSh(c.alias[1])))>>
           ELSE <<>>))

RECURSIVE ClauseShs(_, _)
ClauseShs(kw, cs) ==
    IF cs = <<>> THEN <<>>
    ELSE <<ClauseSh(kw, Head(cs))>> \o ClauseShs(FALSE, Tail(cs))

\* namespace_use_declaration: use [function] clause (, clause)* ;
UseDeclSh(u) ==
    LET Decl(cls) ==
            Nd("namespace_use_declaration",
               <<Sym("use")>>
               \o (IF u.kw = "decl" THEN <<Sp(Fld("type", Sym("function")))>> ELSE <<>>)
               \o <<Sp(Head(cls))>> \o Tail(cls)
               \o <<Sym(";")>>)
    IN  Decl(SepBy(ClauseShs(u.kw = "clause", u.clauses), ","))

\* namespace_use_declaration: use [function] namespace_name \ { clause, ... } ;
UseGroupSh(g) ==
    Nd("namespace_use_declaration",
       <<Sym("use")>>
       \o (IF g.kw = "decl" THEN <<Sp(Fld("type", Sym("function")))>> ELSE <<>>)
       \o <<Sp(NamespaceNameSh(g.prefix)), Sym("\\"),
            Fld("body", Nd("namespace_use_group",
                <<Sym("{")>> \o SepBy(ClauseShs(FALSE, g.items), ",")
                \o <<Sym("}")>>))>>
       \o <<Sym(";")>>)

\* string: ' string_content '
StringSh(s) == Nd("string", <<Sym("'"), Tok("string_content", s), Sym("'")>>)

\* function_call_expression: function arguments, arguments: ( argument, ... )
\* argument: [name :] expression
\* an expression is a string 'x' ("str"), __DIR__ . 'x' ("cat"), or a call
\* callee('x') ("call")
RECURSIVE CallSh(_, _, _), ExprSh(_), ArgSh(_), ArgShs(_)
ExprSh(e) ==
    IF e.e = "str" THEN StringSh(e.s)
    ELSE IF e.e = "cat"
    THEN Nd("binary_expression",
            <<Fld("left", NameSh("__DIR__")), Sp(Fld("operator", Sym("."))),
              Sp(Fld("right", StringSh(e.s)))>>)
    ELSE CallSh(e.lead, e.segs, e.args)

ArgSh(a) ==
    LET Placed(arg) == IF a.nl THEN Nl(Sp(arg)) ELSE arg
        Labelled(expr) ==
            IF a.name # <<>>
            THEN <<Fld("name", NameSh(a.name[1])), Sym(":"), Sp(expr)>>
            ELSE <<expr>>
    IN  Placed(Nd("argument", Labelled(ExprSh(a.expr))))

ArgShs(args) ==
    IF args = <<>> THEN <<>> ELSE <<ArgSh(Head(args))>> \o ArgShs(Tail(args))

CallSh(lead, segs, args) ==
    Nd("function_call_expression",
       <<Fld("function", QualifiedSh(lead, segs)),
         Fld("arguments", Nd("arguments",
             <<Sym("(")>> \o SepBy(ArgShs(args), ",") \o <<Sym(")")>>))>>)

\* expression_statement: expression ;
CallStmtSh(c) ==
    Nd("expression_statement", <<CallSh(c.lead, c.segs, c.args), Sym(";")>>)

StmtSh(st) ==
    IF st.t = "use" THEN UseDeclSh(st)
    ELSE IF st.t = "group" THEN UseGroupSh(st)
    ELSE CallStmtSh(st)

RECURSIVE StmtShs(_)
StmtShs(sts) ==
    IF sts = <<>> THEN <<>> ELSE <<Nl(StmtSh(Head(sts)))>> \o StmtShs(Tail(sts))

\* program: php_tag statement*
ProgramSh(sts) == Nd("program", <<Tok("php_tag", "<?php")>> \o StmtShs(sts))

\* the (tree, text) pair of a source: text is what the editor sent, tree
\* what the parser returned for it
Parse(sts) ==
    LET Pair(r) == [tree |-> r.node, text |-> r.text]
    IN  Pair(Layout(ProgramSh(sts), 0, 0, <<>>))

(***************************************************************************)
(* Data model (types.rs).  Option<T>: <<>> is None, <<v>> is Some(v).      *)
(* A HashMap<String, V> is a function whose domain is its key set.         *)
(***************************************************************************)
DirectNamespace == [tag |-> "DirectNamespace"]

FunctionImport == [tag |-> "FunctionImport"]

FunctionImportWithAlias(a) == [tag |-> "FunctionImportWithAlias", alias |-> a]

ImportInfo(ns, fname, alias) ==
    [namespace |-> ns, function_name |-> fname, alias |-> alias]

\* HashMap::new
EmptyMap == [k \in {} |-> DirectNamespace]

\* HashMap::insert that keeps the value of a key the map already has
InsertKeep(m, k, v) ==
    [x \in DOMAIN m \cup {k} |-> IF x \in DOMAIN m THEN m[x] ELSE v]

\* HashMap::insert
Insert(m, k, v) == [x \in DOMAIN m \cup {k} |-> IF x = k THEN v ELSE m[x]]

\* HashMap::contains_key
contains_key(m, k) == k \in DOMAIN m

(***************************************************************************)
(* ImportAnalyzer (import_analyzer.rs).                                    *)
(***************************************************************************)
\* the traverse_children callback of extract_namespace_parts, child i on
RECURSIVE NamespacePartsFrom(_, _, _, _)
NamespacePartsFrom(kids, i, text, parts) ==
    IF i > Len(kids) THEN Ok(parts)
    ELSE LET child == kids[i]
             Pushed(name) ==
                 IF IsPanic(name) THEN name
                 ELSE NamespacePartsFrom(kids, i + 1, text,
                          IF name.ok THEN Append(parts, name.val) ELSE parts)
         IN  IF child.kind = "name"
             THEN Pushed(extract_node_text(child, text))
             ELSE NamespacePartsFrom(kids, i + 1, text, parts)

extract_namespace_parts(node, text) ==
    NamespacePartsFrom(traverse_children(node), 1, text, <<>>)

\* the traverse_children callback of extract_qualified_name_parts
RECURSIVE QualifiedNamePartsFrom(_, _, _, _)
QualifiedNamePartsFrom(kids, i, text, parts) ==
    IF i > Len(kids) THEN Ok(parts)
    ELSE LET child == kids[i]
             Extended(ns) ==
                 IF IsPanic(ns) THEN ns
                 ELSE QualifiedNamePartsFrom(kids, i + 1, text,
                          IF ns.ok THEN parts \o ns.val ELSE parts)
             Pushed(name) ==
                 IF IsPanic(name) THEN name
                 ELSE QualifiedNamePartsFrom(kids, i + 1, text,
                          IF name.ok THEN Append(parts, name.val) ELSE parts)
         IN  IF child.kind = "namespace_name"
             THEN Extended(extract_namespace_parts(child, text))
             ELSE IF child.kind = "name"
             THEN Pushed(extract_node_text(child, text))
             ELSE QualifiedNamePartsFrom(kids, i + 1, text, parts)

extract_qualified_name_parts(node, text) ==
    QualifiedNamePartsFrom(traverse_children(node), 1, text, <<>>)

\* the traverse_children callback of parse_single_use_clause; acc holds the
\* captured qualified_name_parts and alias
RECURSIVE SingleClauseFrom(_, _, _, _)
SingleClauseFrom(kids, i, text, acc) ==
    IF i > Len(kids) THEN Ok(acc)
    ELSE LET child == kids[i]
             Qualified(parts) ==
                 IF IsPanic(parts) THEN parts
                 ELSE SingleClauseFrom(kids, i + 1, text,
                          IF parts.ok THEN [acc EXCEPT !.parts = parts.val] ELSE acc)
             Aliased(name) ==
                 IF IsPanic(name) THEN name
                 ELSE SingleClauseFrom(kids, i + 1, text,
                          IF name.ok THEN [acc EXCEPT !.alias = <<name.val>>] ELSE acc)
         IN  IF child.kind = "qualified_name"
             THEN Qualified(extract_qualified_name_parts(child, text))
             ELSE IF child.kind = "name"
             THEN Aliased(extract_node_text(child, text))
             ELSE SingleClauseFrom(kids, i + 1, text, acc)

\* parse_single_use_clause that takes the first segment as the namespace
parse_single_use_clause_first(node, text) ==
    LET Info(parts, n, alias) ==
            IF n < 2
            THEN Err("InvalidImportFormat: Invalid qualified name")
            ELSE Ok(ImportInfo(parts[1], parts[n], alias))
        Captured(acc) ==
            IF ~acc.ok THEN acc
            ELSE Info(acc.val.parts, Len(acc.val.parts), acc.val.alias)
    IN  Captured(SingleClauseFrom(traverse_children(node), 1, text,
                                  [parts |-> <<>>, alias |-> <<>>]))

parse_single_use_clause(node, text) ==
    LET Info(parts, n, alias) ==
            IF n < 2
            THEN Err("InvalidImportFormat: Invalid qualified name")
            ELSE Ok(ImportInfo(Join(SubSeq(parts, 1, n - 1), "\\"),
                               parts[n], alias))
        Captured(acc) ==
            IF ~acc.ok THEN acc
            ELSE Info(acc.val.parts, Len(acc.val.parts), acc.val.alias)
    IN  Captured(SingleClauseFrom(traverse_children(node), 1, text,
                                  [parts |-> <<>>, alias |-> <<>>]))

\* GroupClauseFrom that tests the imported name of the sub-clause only, the
\* first name child, and leaves the alias out
RECURSIVE GroupClauseFromFirstName(_, _, _, _)
GroupClauseFromFirstName(kids, i, text, found_view) ==
    IF i > Len(kids) THEN Ok(found_view)
    ELSE LET clause_child == kids[i]
             Found(name) ==
                 IF IsPanic(name) THEN name
                 ELSE Ok((name.ok /\ name.val = "view") \/ found_view)
         IN  IF clause_child.kind = "name"
             THEN Found(extract_node_text(clause_child, text))
             ELSE GroupClauseFromFirstName(kids, i + 1, text, found_view)

\* the inner traverse_children callback of parse_grouped_use_clauses
RECURSIVE GroupClauseFrom(_, _, _, _)
GroupClauseFrom(kids, i, text, found_view) ==
    IF i > Len(kids) THEN Ok(found_view)
    ELSE LET clause_child == kids[i]
             Found(name) ==
                 IF IsPanic(name) THEN name
                 ELSE GroupClauseFrom(kids, i + 1, text,
                          IF name.ok /\ name.val = "view" THEN TRUE ELSE found_view)
         IN  IF clause_child.kind = "name"
             THEN Found(extract_node_text(clause_child, text))
             ELSE GroupClauseFrom(kids, i + 1, text, found_view)

\* GroupFrom whose found_view is assigned, not only set, by each sub-clause
RECURSIVE GroupFromLastClause(_, _, _, _)
GroupFromLastClause(kids, i, text, acc) ==
    IF i > Len(kids) THEN Ok(acc)
    ELSE LET child == kids[i]
             Prefixed(parts) ==
                 IF IsPanic(parts) THEN parts
                 ELSE GroupFromLastClause(kids, i + 1, text,
                          IF parts.ok /\ parts.val # <<>>
                          THEN [acc EXCEPT !.namespace = parts.val[1]] ELSE acc)
             Found(found_view) ==
                 IF IsPanic(found_view) THEN found_view
                 ELSE GroupFromLastClause(kids, i + 1, text,
                          [acc EXCEPT !.found_view = found_view.val])
         IN  IF child.kind = "qualified_name"
             THEN Prefixed(extract_qualified_name_parts(child, text))
             ELSE IF child.kind = "namespace_use_clause"
             THEN Found(GroupClauseFrom(traverse_children(child), 1, text, FALSE))
             ELSE GroupFromLastClause(kids, i + 1, text, acc)

\* the outer traverse_children callback of parse_grouped_use_clauses
RECURSIVE GroupFrom(_, _, _, _)
GroupFrom(kids, i, text, acc) ==
    IF i > Len(kids) THEN Ok(acc)
    ELSE LET child == kids[i]
             Prefixed(parts) ==
                 IF IsPanic(parts) THEN parts
                 ELSE GroupFrom(kids, i + 1, text,
                          IF parts.ok /\ parts.val # <<>>
                          THEN [acc EXCEPT !.namespace = parts.val[1]] ELSE acc)
             Found(found_view) ==
                 IF IsPanic(found_view) THEN found_view
                 ELSE GroupFrom(kids, i + 1, text,
                          [acc EXCEPT !.found_view = found_view.val])
         IN  IF child.kind = "qualified_name"
             THEN Prefixed(extract_qualified_name_parts(child, text))
             ELSE IF child.kind = "namespace_use_clause"
             THEN Found(GroupClauseFrom(traverse_children(child), 1, text,
                                        acc.found_view))
             ELSE GroupFrom(kids, i + 1, text, acc)

\* parse_grouped_use_clauses without the found_view check
parse_grouped_use_clauses_unchecked(node, text) ==
    LET Info(acc) ==
            IF ~acc.ok THEN acc
            ELSE Ok(ImportInfo(IF acc.val.namespace = "" THEN "Tempest"
                               ELSE acc.val.namespace,
                               "view", <<>>))
    IN  Info(GroupFrom(traverse_children(node), 1, text,
                       [namespace |-> "", found_view |-> FALSE]))

parse_grouped_use_clauses(node, text) ==
    LET Info(acc) ==
            IF ~acc.ok THEN acc
            ELSE IF ~acc.val.found_view
            THEN Err("InvalidImportFormat: view function not found in grouped import")
            ELSE Ok(ImportInfo(IF acc.val.namespace = "" THEN "Tempest"
                               ELSE acc.val.namespace,
                               "view", <<>>))
    IN  Info(GroupFrom(traverse_children(node), 1, text,
                       [namespace |-> "", found_view |-> FALSE]))

extract_use_clause_info(node, text) ==
    LET Info(clause_node, group_node) ==
            IF clause_node # <<>>
            THEN parse_single_use_clause(clause_node[1], text)
            ELSE IF group_node # <<>>
            THEN parse_grouped_use_clauses(group_node[1], text)
            ELSE Err("InvalidImportFormat: No valid use clause found")
    IN  Info(find_child_by_kind(node, "namespace_use_clause"),
             find_child_by_kind(node, "namespace_use_group"))

\* is_function_use_declaration that takes every use declaration
is_function_use_declaration_any(node, text) == Ok(TRUE)

is_function_use_declaration(node, text) ==
    LET Starts(clause_text) ==
            IF clause_text.ok
            THEN Ok(StartsWith(TrimStart(clause_text.val), "function"))
            ELSE IF IsPanic(clause_text) THEN clause_text
            ELSE Ok(FALSE)
        First(clause_node) ==
            IF clause_node # <<>>
            THEN Starts(extract_node_text(clause_node[1], text))
            ELSE Ok(FALSE)
    IN  IF find_child_by_kind(node, "function") # <<>>
        THEN Ok(TRUE)
        ELSE First(find_child_by_kind(node, "namespace_use_clause"))

parse_use_declaration_ast(node, text) ==
    LET Info(is_function_import) ==
            IF ~is_function_import.ok
            THEN is_function_import
            ELSE IF ~is_function_import.val
            THEN Err("InvalidImportFormat: Not a function import")
            ELSE extract_use_clause_info(node, text)
    IN  Info(is_function_use_declaration(node, text))

\* ImportInfosFrom that ends the scan at the first statement it cannot parse
RECURSIVE ImportInfosFromAbort(_, _, _, _)
ImportInfosFromAbort(import_nodes, i, text, import_infos) ==
    IF i > Len(import_nodes) THEN Ok(import_infos)
    ELSE LET Pushed(import_info) ==
                 IF IsPanic(import_info) THEN import_info
                 ELSE IF import_info.ok
                 THEN ImportInfosFromAbort(import_nodes, i + 1, text,
                                           Append(import_infos, import_info.val))
                 ELSE Ok(import_infos)
         IN  Pushed(parse_use_declaration_ast(import_nodes[i], text))

\* the loop of extract_import_statements over import_nodes, node i on
RECURSIVE ImportInfosFrom(_, _, _, _)
ImportInfosFrom(import_nodes, i, text, import_infos) ==
    IF i > Len(import_nodes) THEN Ok(import_infos)
    ELSE LET Pushed(import_info) ==
                 IF IsPanic(import_info) THEN import_info
                 ELSE ImportInfosFrom(import_nodes, i + 1, text,
                          IF import_info.ok
                          THEN Append(import_infos, import_info.val)
                          ELSE import_infos)
         IN  Pushed(parse_use_declaration_ast(import_nodes[i], text))

extract_import_statements(tree, text) ==
    ImportInfosFrom(find_nodes_by_kind(tree, "namespace_use_declaration"),
                    1, text, <<>>)

\* add_direct_namespace_imports without its first insert
add_direct_namespace_imports_one(imports) ==
    Insert(imports, "Tempest\\view", DirectNamespace)

\* add_direct_namespace_imports without its second insert
add_direct_namespace_imports_leading(imports) ==
    Insert(imports, "\\Tempest\\view", DirectNamespace)

add_direct_namespace_imports(imports) ==
    Insert(Insert(imports, "\\Tempest\\view", DirectNamespace),
           "Tempest\\view", DirectNamespace)

\* RegisterImport that classifies every Tempest\view import as a plain
\* function import, whatever key it is stored under
RegisterImportUnclassified(imports, import_info) ==
    IF import_info.namespace = "Tempest" /\ import_info.function_name = "view"
    THEN IF import_info.alias # <<>>
         THEN Insert(imports, import_info.alias[1], FunctionImport)
         ELSE Insert(imports, import_info.function_name, FunctionImport)
    ELSE imports

\* RegisterImport that registers aliased imports only
RegisterImportAliasOnly(imports, import_info) ==
    IF import_info.namespace = "Tempest" /\ import_info.function_name = "view"
       /\ import_info.alias # <<>>
    THEN Insert(imports, import_info.alias[1],
                FunctionImportWithAlias(import_info.alias[1]))
    ELSE imports

\* RegisterImport that takes the function name as key of an aliased import
RegisterImportByName(imports, import_info) ==
    IF import_info.namespace = "Tempest" /\ import_info.function_name = "view"
    THEN IF import_info.alias # <<>>
         THEN Insert(imports, import_info.function_name,
                     FunctionImportWithAlias(import_info.alias[1]))
         ELSE Insert(imports, import_info.function_name, FunctionImport)
    ELSE imports

\* one iteration of the loop of analyze_imports
RegisterImport(imports, import_info) ==
    IF import_info.namespace = "Tempest" /\ import_info.function_name = "view"
    THEN IF import_info.alias # <<>>
         THEN Insert(imports, import_info.alias[1],
                     FunctionImportWithAlias(import_info.alias[1]))
         ELSE Insert(imports, import_info.function_name, FunctionImport)
    ELSE imports

RECURSIVE RegisterFrom(_, _, _)
RegisterFrom(import_infos, i, imports) ==
    IF i > Len(import_infos) THEN imports
    ELSE RegisterFrom(import_infos, i + 1, RegisterImport(imports, import_infos[i]))

analyze_imports(tree, text) ==
    LET Registered(import_infos) ==
            IF ~import_infos.ok
            THEN import_infos
            ELSE Ok(RegisterFrom(import_infos.val, 1,
                                 add_direct_namespace_imports(EmptyMap)))
    IN  Registered(extract_import_statements(tree, text))

(***************************************************************************)
(* FunctionCallAnalyzer (call_analyzer.rs).                                *)
(***************************************************************************)
ViewParameter(name, value, raw_text) ==
    [name |-> name, value |-> value, raw_text |-> raw_text]

\* ViewCall::with_parameters
ViewCall(function_name, line, text, parameters) ==
    [function_name |-> function_name, line |-> line, text |-> text,
     parameters |-> parameters]

\* the character U+0060
Backquote == SubSeq("`'", 1, 1)

\* char::is_ascii_punctuation
IsAsciiPunctuation(c) ==
    c \in {"!", "\"", "#", "$", "%", "&", "'", "(", ")", "*", "+", ",", "-",
           ".", "/", ":", ";", "<", "=", ">", "?", "@", "[", "\\", "]", "^",
           "_", Backquote, "{", "|", "}", "~"}

\* str::contains(char)
RECURSIVE ContainsChar(_, _)
ContainsChar(s, c) ==
    Len(s) > 0 /\ (SubSeq(s, 1, 1) = c \/ ContainsChar(SubSeq(s, 2, Len(s)), c))

\* str::chars().all(is_ascii_punctuation)
RECURSIVE AllPunctuation(_)
AllPunctuation(s) ==
    Len(s) = 0 \/ (IsAsciiPunctuation(SubSeq(s, 1, 1))
                   /\ AllPunctuation(SubSeq(s, 2, Len(s))))

\* ValuePartsFrom that keeps every child that is not punctuation, the name
\* included
RECURSIVE ValuePartsFromAll(_, _, _, _)
ValuePartsFromAll(kids, i, text, value_parts) ==
    IF i > Len(kids) THEN Ok(value_parts)
    ELSE LET child == kids[i]
             keep == /\ ~ContainsChar(child.kind, ":")
                     /\ child.kind # ":"
                     /\ (Len(child.kids) > 0 \/ ~AllPunctuation(child.kind))
             Pushed(child_text) ==
                 IF IsPanic(child_text) THEN child_text
                 ELSE ValuePartsFromAll(kids, i + 1, text,
                          IF child_text.ok
                          THEN Append(value_parts, child_text.val)
                          ELSE value_parts)
         IN  IF keep
             THEN Pushed(extract_node_text(child, text))
             ELSE ValuePartsFromAll(kids, i + 1, text, value_parts)

\* the cursor loop of parse_single_argument that collects value_parts
RECURSIVE ValuePartsFrom(_, _, _, _)
ValuePartsFrom(kids, i, text, value_parts) ==
    IF i > Len(kids) THEN Ok(value_parts)
    ELSE LET child == kids[i]
             keep == /\ child.field # "name"
                     /\ ~ContainsChar(child.kind, ":")
                     /\ child.kind # ":"
                     /\ (Len(child.kids) > 0 \/ ~AllPunctuation(child.kind))
             Pushed(child_text) ==
                 IF IsPanic(child_text) THEN child_text
                 ELSE ValuePartsFrom(kids, i + 1, text,
                          IF child_text.ok
                          THEN Append(value_parts, child_text.val)
                          ELSE value_parts)
         IN  IF keep
             THEN Pushed(extract_node_text(child, text))
             ELSE ValuePartsFrom(kids, i + 1, text, value_parts)

parse_single_argument(node, text) ==
    LET Valued(raw_text, name, value_parts) ==
            IF ~value_parts.ok THEN value_parts
            ELSE Ok(ViewParameter(<<name.val>>, Join(value_parts.val, " "),
                                  raw_text.val))
        NamedParameter(raw_text, name) ==
            IF ~name.ok THEN name
            ELSE Valued(raw_text, name, ValuePartsFrom(node.kids, 1, text, <<>>))
        Parameter(raw_text, name_node) ==
            IF ~raw_text.ok THEN raw_text
            ELSE IF name_node # <<>>
            THEN NamedParameter(raw_text, extract_node_text(name_node[1], text))
            ELSE Ok(ViewParameter(<<>>, raw_text.val, raw_text.val))
    IN  Parameter(extract_node_text(node, text),
                  child_by_field_name(node, "name"))

\* ParametersFrom that puts each parameter in front of the earlier ones
RECURSIVE ParametersFromReversed(_, _, _, _)
ParametersFromReversed(kids, i, text, parameters) ==
    IF i > Len(kids) THEN Ok(parameters)
    ELSE LET child == kids[i]
             Pushed(param) ==
                 IF IsPanic(param) THEN param
                 ELSE ParametersFromReversed(kids, i + 1, text,
                          IF param.ok THEN <<param.val>> \o parameters
                          ELSE parameters)
         IN  IF child.kind = "argument"
             THEN Pushed(parse_single_argument(child, text))
             ELSE ParametersFromReversed(kids, i + 1, text, parameters)

\* the traverse_children callback of parse_function_parameters
RECURSIVE ParametersFrom(_, _, _, _)
ParametersFrom(kids, i, text, parameters) ==
    IF i > Len(kids) THEN Ok(parameters)
    ELSE LET child == kids[i]
             Pushed(param) ==
                 IF IsPanic(param) THEN param
                 ELSE ParametersFrom(kids, i + 1, text,
                          IF param.ok THEN Append(parameters, param.val)
                          ELSE parameters)
         IN  IF child.kind = "argument"
             THEN Pushed(parse_single_argument(child, text))
             ELSE ParametersFrom(kids, i + 1, text, parameters)

parse_function_parameters(node, text) ==
    LET Parameters(arguments_node) ==
            IF arguments_node # <<>>
            THEN ParametersFrom(traverse_children(arguments_node[1]), 1, text, <<>>)
            ELSE Ok(<<>>)
    IN  Parameters(child_by_field_name(node, "arguments"))

\* extract_view_call_info that drops a leading backslash of the callee
extract_view_call_info_normalized(node, text) ==
    LET line == node.row + 1
        Normal(name) ==
            IF StartsWith(name, "\\") THEN SubSeq(name, 2, Len(name)) ELSE name
        Info(function_name, call_text, parameters) ==
            IF ~function_name.ok THEN function_name
            ELSE IF ~call_text.ok THEN call_text
            ELSE IF ~parameters.ok THEN parameters
            ELSE Ok(ViewCall(Normal(function_name.val), line, call_text.val,
                             parameters.val))
        Called(function_node) ==
            IF function_node = <<>>
            THEN Err("ParseError: Function call missing function field")
            ELSE Info(extract_node_text(function_node[1], text),
                      extract_node_text(node, text),
                      parse_function_parameters(node, text))
    IN  Called(child_by_field_name(node, "function"))

\* extract_view_call_info that reports the row of the call as tree-sitter
\* counts it, from 0
extract_view_call_info_zero_based(node, text) ==
    LET line == node.row
        Info(function_name, call_text, parameters) ==
            IF ~function_name.ok THEN function_name
            ELSE IF ~call_text.ok THEN call_text
            ELSE IF ~parameters.ok THEN parameters
            ELSE Ok(ViewCall(function_name.val, line, call_text.val, parameters.val))
        Called(function_node) ==
            IF function_node = <<>>
            THEN Err("ParseError: Function call missing function field")
            ELSE Info(extract_node_text(function_node[1], text),
                      extract_node_text(node, text),
                      parse_function_parameters(node, text))
    IN  Called(child_by_field_name(node, "function"))

extract_view_call_info(node, text) ==
    LET line == node.row + 1
        Info(function_name, call_text, parameters) ==
            IF ~function_name.ok THEN function_name
            ELSE IF ~call_text.ok THEN call_text
            ELSE IF ~parameters.ok THEN parameters
            ELSE Ok(ViewCall(function_name.val, line, call_text.val, parameters.val))
        Called(function_node) ==
            IF function_node = <<>>
            THEN Err("ParseError: Function call missing function field")
            ELSE Info(extract_node_text(function_node[1], text),
                      extract_node_text(node, text),
                      parse_function_parameters(node, text))
    IN  Called(child_by_field_name(node, "function"))

\* CallsFrom that ends the scan at the first call it cannot extract
RECURSIVE CallsFromAbort(_, _, _, _)
CallsFromAbort(call_nodes, i, text, calls) ==
    IF i > Len(call_nodes) THEN Ok(calls)
    ELSE LET Pushed(view_call) ==
                 IF IsPanic(view_call) THEN view_call
                 ELSE IF view_call.ok
                 THEN CallsFromAbort(call_nodes, i + 1, text,
                                     Append(calls, view_call.val))
                 ELSE Ok(calls)
         IN  Pushed(extract_view_call_info(call_nodes[i], text))

\* the loop of find_function_calls over call_nodes, node i on
RECURSIVE CallsFrom(_, _, _, _)
CallsFrom(call_nodes, i, text, calls) ==
    IF i > Len(call_nodes) THEN Ok(calls)
    ELSE LET Pushed(view_call) ==
                 IF IsPanic(view_call) THEN view_call
                 ELSE CallsFrom(call_nodes, i + 1, text,
                          IF view_call.ok THEN Append(calls, view_call.val)
                          ELSE calls)
         IN  Pushed(extract_view_call_info(call_nodes[i], text))

find_function_calls(tree, text) ==
    CallsFrom(find_nodes_by_kind(tree, "function_call_expression"),
              1, text, <<>>)

(***************************************************************************)
(* ViewIntelligence (lib.rs).                                              *)
(***************************************************************************)
\* ViewAnalysisResult
ViewAnalysisResult(imports, calls) == [imports |-> imports, calls |-> calls]

\* FilterCalls without the filter
FilterCallsAll(all_calls, imports) == all_calls

\* FilterCalls that collects the kept calls last to first
RECURSIVE FilterCallsReversed(_, _)
FilterCallsReversed(all_calls, imports) ==
    IF all_calls = <<>> THEN <<>>
    ELSE FilterCallsReversed(Tail(all_calls), imports)
         \o (IF contains_key(imports, Head(all_calls).function_name)
             THEN <<Head(all_calls)>> ELSE <<>>)

\* all_calls.into_iter().filter(|call| imports.contains_key(..)).collect()
FilterCalls(all_calls, imports) ==
    LET Keep(call) == contains_key(imports, call.function_name)
    IN  SelectSeq(all_calls, Keep)

find_view_calls(tree, text) ==
    LET Correlated(imports, all_calls) ==
            IF ~imports.ok THEN imports
            ELSE IF ~all_calls.ok THEN all_calls
            ELSE Ok(FilterCalls(all_calls.val, imports.val))
    IN  Correlated(analyze_imports(tree, text), find_function_calls(tree, text))

analyze(tree, text) ==
    LET Correlated(imports, all_calls) ==
            IF ~imports.ok THEN imports
            ELSE IF ~all_calls.ok THEN all_calls
            ELSE Ok(ViewAnalysisResult(imports.val,
                                       FilterCalls(all_calls.val, imports.val)))
    IN  Correlated(analyze_imports(tree, text), find_function_calls(tree, text))

(***************************************************************************)
(* ViewAnalysisFormatter (formatter.rs) and analyze_document (lib.rs): the *)
(* messages logged to the client, in order.  A message is its type, its    *)
(* format string and the values formatted into it.                        *)
(***************************************************************************)
\* Client::log_message(type, message)
LogMessage(type, message, args) ==
    [type |-> type, message |-> message, args |-> args]

\* ViewImportType::description
description(import_type) ==
    IF import_type.tag = "DirectNamespace" THEN "direct namespace"
    ELSE IF import_type.tag = "FunctionImport" THEN "function import"
    ELSE "function import with alias"

\* imports.get(&call.function_name).map(..).unwrap_or("unknown")
DescriptionOf(imports, function_name) ==
    IF contains_key(imports, function_name)
    THEN description(imports[function_name]) ELSE "unknown"

\* format_import_summary: one item per entry, joined in the iteration order
\* of the HashMap, which is unspecified: the model keeps the set of items
format_import_summary(imports) ==
    { IF imports[name].tag = "FunctionImportWithAlias"
      THEN imports[name].alias \o " (alias for view)"
      ELSE name \o " (" \o description(imports[name]) \o ")" : name \in DOMAIN imports }

\* format_call_summary: the count and one detail line per call
format_call_summary(result) ==
    LET Label(function_name) ==
            IF ~contains_key(result.imports, function_name) THEN "unknown"
            ELSE IF result.imports[function_name].tag = "DirectNamespace" THEN "direct"
            ELSE IF result.imports[function_name].tag = "FunctionImport" THEN "imported"
            ELSE "aliased"
    IN  <<Len(result.calls),
          [i \in 1..Len(result.calls) |->
              <<result.calls[i].line, result.calls[i].text,
                Label(result.calls[i].function_name)>>]>>

\* the messages of the parameters of one call
ParameterMessages(parameters) ==
    IF parameters = <<>>
    THEN <<LogMessage("INFO", "  No parameters found", <<>>)>>
    ELSE [i \in 1..Len(parameters) |->
             LogMessage("INFO", "  Parameter: {} (raw: '{}')",
                        <<IF parameters[i].name # <<>>
                          THEN <<"named parameter '{}' = {}",
                                 parameters[i].name[1], parameters[i].value>>
                          ELSE <<"positional parameter [{}] = {}",
                                 i - 1, parameters[i].value>>,
                          parameters[i].raw_text>>)]

\* the loop of log_analysis_results over result.calls, call i on
RECURSIVE CallMessagesFrom(_, _, _)
CallMessagesFrom(result, i, messages) ==
    IF i > Len(result.calls) THEN messages
    ELSE CallMessagesFrom(result, i + 1,
             messages
             \o <<LogMessage("INFO",
                     "Found Tempest view call - name: '{}', type: {import_type}, line: {}, text: '{}'",
                     <<result.calls[i].function_name,
                       DescriptionOf(result.imports, result.calls[i].function_name),
                       result.calls[i].line, result.calls[i].text>>)>>
             \o ParameterMessages(result.calls[i].parameters))

log_analysis_results(result, uri) ==
    (IF DOMAIN result.imports # {}
     THEN <<LogMessage("INFO", "Available Tempest view functions in {uri}: {import_summary}",
                       <<uri, format_import_summary(result.imports)>>)>>
     ELSE <<>>)
    \o CallMessagesFrom(result, 1, <<>>)
    \o (IF Len(result.calls) > 0
        THEN <<LogMessage("INFO", "Found {call_count} Tempest view() calls:\n{details}",
                          format_call_summary(result))>>
        ELSE <<>>)

\* ViewIntelligence::analyze_document: the messages it logs
analyze_document(tree, text, uri) ==
    LET Logged(imports, all_calls) ==
            IF IsPanic(imports) THEN imports
            ELSE IF ~imports.ok
            THEN Ok(<<LogMessage("ERROR", "Import analysis failed for {uri}: {e}",
                                 <<uri, imports.err>>)>>)
            ELSE IF IsPanic(all_calls) THEN all_calls
            ELSE IF ~all_calls.ok
            THEN Ok(<<LogMessage("ERROR",
                                 "Function call analysis failed for {uri}: {e}",
                                 <<uri, all_calls.err>>)>>)
            ELSE Ok(log_analysis_results(
                        ViewAnalysisResult(imports.val,
                                           FilterCalls(all_calls.val, imports.val)),
                        uri))
    IN  Logged(analyze_imports(tree, text), find_function_calls(tree, text))

(***************************************************************************)
(* The documents the model analyses: use declarations followed by call     *)
(* statements, one statement per line.                                     *)
(***************************************************************************)
Tracked == <<"Tempest", "view">>

Str(x) == [e |-> "str", s |-> x]

Cat(x) == [e |-> "cat", s |-> x]

Call(lead, segs, args) == [e |-> "call", lead |-> lead, segs |-> segs, args |-> args]

Pos(expr) == Arg(<<>>, expr, FALSE)

\* use function Tempest\view;   (the keyword parsed at either place)
\* use function Tempest\view as render;      use function Tempest\view as view;
\* use function \Tempest\view;               use function Tempest\View\view;
\* use function Other\view as render;        use function Tempest\root_path as view;
\* use function view;                        use function Other\view;
\* use Tempest\view;     use Tempest\View\View;     use functions\view;
\* use function Foo\bar, Tempest\view;       use function Tempest\view, Foo\bar;
SingleUses ==
    { UseDecl(kw, <<Clause(FALSE, Tracked, <<>>)>>) : kw \in {"decl", "clause"} }
    \cup
    { UseDecl("decl", <<c>>) : c \in
        { Clause(FALSE, Tracked, <<"render">>),
          Clause(FALSE, Tracked, <<"view">>),
          Clause(TRUE, Tracked, <<>>),
          Clause(FALSE, <<"Tempest", "View", "view">>, <<>>),
          Clause(FALSE, <<"Other", "view">>, <<"render">>),
          Clause(FALSE, <<"Tempest", "root_path">>, <<"view">>),
          Clause(FALSE, <<"view">>, <<>>),
          Clause(FALSE, <<"Other", "view">>, <<>>) } }
    \cup
    { UseDecl("none", <<c>>) : c \in
        { Clause(FALSE, Tracked, <<>>),
          Clause(FALSE, <<"Tempest", "View", "View">>, <<>>),
          Clause(FALSE, <<"functions", "view">>, <<>>) } }
    \cup
    { UseDecl("decl", <<Clause(FALSE, <<"Foo", "bar">>, <<>>),
                        Clause(FALSE, Tracked, <<>>)>>),
      UseDecl("decl", <<Clause(FALSE, Tracked, <<>>),
                        Clause(FALSE, <<"Foo", "bar">>, <<>>)>>) }

Item(name) == Clause(FALSE, <<name>>, <<>>)

\* use function Tempest\{root_path, view};   use function Tempest\{view, root_path};
\* use function Tempest\{root_path, helper}; use function Other\{root_path, view};
\* use function Tempest\Support\{view};      use Tempest\{view};
\* use function Tempest\{view as render};    use function Tempest\{helper as view};
GroupUses ==
    { UseGroup("decl", <<"Tempest">>, <<Item("root_path"), Item("view")>>),
      UseGroup("decl", <<"Tempest">>, <<Item("view"), Item("root_path")>>),
      UseGroup("decl", <<"Tempest">>, <<Item("root_path"), Item("helper")>>),
      UseGroup("decl", <<"Other">>, <<Item("root_path"), Item("view")>>),
      UseGroup("decl", <<"Tempest", "Support">>, <<Item("view")>>),
      UseGroup("none", <<"Tempest">>, <<Item("view")>>),
      UseGroup("decl", <<"Tempest">>, <<Clause(FALSE, <<"view">>, <<"render">>)>>),
      UseGroup("decl", <<"Tempest">>, <<Clause(FALSE, <<"helper">>, <<"view">>)>>) }

UsePool == SingleUses \cup GroupUses

\* view('a');  render('a');  Tempest\view('a');  \Tempest\view('a');  other('a');
\* view(view('a'));  other(view('a'));  view();
\* view(path: __DIR__ . '/home.view.php');
\* view('a', data: view('b'));
\* view('a',
\*  'b',
\*  'c');
CallPool ==
    { CallStmt(FALSE, segs, <<Pos(Str("a"))>>) :
        segs \in {<<"view">>, <<"render">>, Tracked, <<"other">>} }
    \cup
    { CallStmt(TRUE, Tracked, <<Pos(Str("a"))>>),
      CallStmt(FALSE, <<"view">>, <<Pos(Call(FALSE, <<"view">>, <<Pos(Str("a"))>>))>>),
      CallStmt(FALSE, <<"other">>, <<Pos(Call(FALSE, <<"view">>, <<Pos(Str("a"))>>))>>),
      CallStmt(FALSE, <<"view">>, <<>>),
      CallStmt(FALSE, <<"view">>, <<Arg(<<"path">>, Cat("/home.view.php"), FALSE)>>),
      CallStmt(FALSE, <<"view">>,
               <<Pos(Str("a")),
                 Arg(<<"data">>, Call(FALSE, <<"view">>, <<Pos(Str("b"))>>), FALSE)>>),
      CallStmt(FALSE, <<"view">>,
               <<Pos(Str("a")), Arg(<<>>, Str("b"), TRUE), Arg(<<>>, Str("c"), TRUE)>>) }

(***************************************************************************)
(* State.  uses and calls describe the source of the open document; text   *)
(* and tree are the pair handed to the engine; op names the last engine    *)
(* entry point that ran on the pair and res holds what it returned.        *)
(***************************************************************************)
VARIABLES uses, calls, text, tree, op, res,
          kind, cursor, nodes, pc,
          documents, handlers

vars == <<uses, calls, text, tree, op, res, kind, cursor, nodes, pc,
          documents, handlers>>

\* the locals of a running find_nodes_by_kind
walk == <<kind, cursor, nodes, pc>>

\* the fields of TempestLanguageServer and the notification handlers in flight
server == <<documents, handlers>>

\* DashMap::new
NoDocuments == [uri \in {} |-> <<>>]

NoResult == Err("not run")

Init ==
    /\ uses = <<>>
    /\ calls = <<>>
    /\ LET Parsed(parsed) == text = parsed.text /\ tree = parsed.tree
       IN  Parsed(Parse(<<>>))
    /\ op = "none"
    /\ res = NoResult
    /\ kind = ""
    /\ cursor = <<>>
    /\ nodes = <<>>
    /\ pc = "idle"
    /\ documents = NoDocuments
    /\ handlers = <<>>

\* the document gets the source us \o cs and is parsed; a source is written
\* before it is handed to the engine (op = "none") and analysed once
SetSource(us, cs) ==
    LET Parsed(parsed) == text' = parsed.text /\ tree' = parsed.tree
    IN  /\ op = "none"
        /\ uses' = us
        /\ calls' = cs
        /\ Parsed(Parse(us \o cs))
        /\ op' = "none"
        /\ res' = NoResult
        /\ UNCHANGED <<walk, server>>

\* use declarations come before the code of the file
AddUse ==
    /\ calls = <<>>
    /\ Len(uses) < MaxUses
    /\ \E u \in UsePool : SetSource(Append(uses, u), calls)

AddCall ==
    /\ Len(calls) < MaxCalls
    /\ \E c \in CallPool : SetSource(uses, Append(calls, c))

AnalyzeImports ==
    /\ op = "none"
    /\ op' = "analyze_imports"
    /\ res' = analyze_imports(tree, text)
    /\ UNCHANGED <<uses, calls, text, tree, walk, server>>

FindFunctionCalls ==
    /\ op = "none"
    /\ op' = "find_function_calls"
    /\ res' = find_function_calls(tree, text)
    /\ UNCHANGED <<uses, calls, text, tree, walk, server>>

FindViewCalls ==
    /\ op = "none"
    /\ op' = "find_view_calls"
    /\ res' = find_view_calls(tree, text)
    /\ UNCHANGED <<uses, calls, text, tree, walk, server>>

Analyze ==
    /\ op = "none"
    /\ op' = "analyze"
    /\ res' = analyze(tree, text)
    /\ UNCHANGED <<uses, calls, text, tree, walk, server>>

Next ==
    \/ AddUse
    \/ AddCall
    \/ AnalyzeImports
    \/ FindFunctionCalls
    \/ FindViewCalls
    \/ Analyze

Spec == Init /\ [][Next]_vars

(***************************************************************************)
(* Documents that mix the spellings of a call (test_mixed_imports_and_calls *)
(* and test_direct_namespace_calls_work): up to MaxImports of the imports   *)
(* that register a name, then up to MaxSpellings calls, each spelled one of *)
(* the five ways.                                                           *)
(***************************************************************************)
\* use function Tempest\view;      use function Tempest\view as render;
ImportPool ==
    { UseDecl("decl", <<Clause(FALSE, Tracked, <<>>)>>),
      UseDecl("decl", <<Clause(FALSE, Tracked, <<"render">>)>>) }

\* view('a');  render('a');  Tempest\view('a');  \Tempest\view('a');  other('a');
SpellingPool ==
    { CallStmt(FALSE, segs, <<Pos(Str("a"))>>) :
        segs \in {<<"view">>, <<"render">>, Tracked, <<"other">>} }
    \cup { CallStmt(TRUE, Tracked, <<Pos(Str("a"))>>) }

AddImport ==
    /\ calls = <<>>
    /\ Len(uses) < MaxImports
    /\ \E u \in ImportPool : SetSource(Append(uses, u), calls)

AddSpelling ==
    /\ Len(calls) < MaxSpellings
    /\ \E c \in SpellingPool : SetSource(uses, Append(calls, c))

NextCalls ==
    \/ AddImport
    \/ AddSpelling
    \/ AnalyzeImports
    \/ FindFunctionCalls
    \/ FindViewCalls
    \/ Analyze

SpecCalls == Init /\ [][NextCalls]_vars

(***************************************************************************)
(* The engine takes any (tree, text) pair (ViewIntelligence::analyze is    *)
(* public): here it is handed the tree of a document together with a text  *)
(* of the same length in which one character is two bytes wide, so that a  *)
(* span of the tree ends inside that character.                            *)
(***************************************************************************)
\* view('a');   other('a');   view(view('a'));
StalePool ==
    { CallStmt(FALSE, <<"view">>, <<Pos(Str("a"))>>),
      CallStmt(FALSE, <<"other">>, <<Pos(Str("a"))>>),
      CallStmt(FALSE, <<"view">>, <<Pos(Call(FALSE, <<"view">>, <<Pos(Str("a"))>>))>>) }

AddStaleCall ==
    /\ Len(calls) < MaxStale
    /\ \E c \in StalePool : SetSource(uses, Append(calls, c))

\* the text in which the byte at offset k continues the character before it
Widen(t, k) == SubSeq(t, 1, k) \o "~" \o SubSeq(t, k + 2, Len(t))

\* the offsets at which a call node starts or ends or its callee ends
CallOffsets(t) ==
    LET Of(call_nodes) ==
            UNION { {call_nodes[i].sb, call_nodes[i].kids[1].eb, call_nodes[i].eb} :
                    i \in 1..Len(call_nodes) }
    IN  Of(find_nodes_by_kind(t, "function_call_expression"))

\* the engine is handed the tree with a text that differs at one such offset
PassOtherText ==
    /\ op = "none"
    /\ \A k \in 1..Len(text) : SubSeq(text, k, k) # "~"
    /\ \E k \in CallOffsets(tree) :
           /\ k >= 1
           /\ k < Len(text)
           /\ text' = Widen(text, k)
    /\ UNCHANGED <<uses, calls, tree, op, res, walk, server>>

NextText ==
    \/ AddImport
    \/ AddStaleCall
    \/ PassOtherText
    \/ AnalyzeImports
    \/ FindFunctionCalls
    \/ FindViewCalls
    \/ Analyze

SpecText == Init /\ [][NextText]_vars

(***************************************************************************)
(* find_nodes_by_kind one cursor move at a time (ast_traversal.rs 13-33),  *)
(* on any tree: a tree of up to MaxNodes nodes is built leaf by leaf and   *)
(* then walked; pc is the place in the loop the walk has reached.          *)
(***************************************************************************)
\* the kinds of the nodes of such a tree, and the kinds searched for
WalkKinds == {"name", "argument"}

SearchKinds == WalkKinds \cup {"string"}

\* the positions a cursor can take in the tree
RECURSIVE Paths(_)
Paths(node) ==
    {node.id} \cup UNION {Paths(node.kids[i]) : i \in 1..Len(node.kids)}

RECURSIVE ShapeOf(_)
ShapeOf(node) ==
    Nd(node.kind, [i \in 1..Len(node.kids) |-> ShapeOf(node.kids[i])])

\* the shape with a leaf of kind k as new last child of the node at path
RECURSIVE WithLeaf(_, _, _)
WithLeaf(sh, path, k) ==
    IF path = <<>>
    THEN [sh EXCEPT !.kids = Append(sh.kids, Nd(k, <<>>))]
    ELSE [sh EXCEPT !.kids[Head(path)] = WithLeaf(sh.kids[Head(path)], Tail(path), k)]

InitWalk ==
    /\ uses = <<>>
    /\ calls = <<>>
    /\ \E k \in WalkKinds :
           LET Laid(r) == tree = r.node /\ text = r.text
           IN  Laid(Layout(Nd(k, <<>>), 0, 0, <<>>))
    /\ op = "none"
    /\ res = NoResult
    /\ kind = ""
    /\ cursor = <<>>
    /\ nodes = <<>>
    /\ pc = "idle"
    /\ documents = NoDocuments
    /\ handlers = <<>>

\* the tree handed to find_nodes_by_kind gets one more node
GrowTree ==
    /\ pc = "idle"
    /\ Cardinality(Paths(tree)) < MaxNodes
    /\ \E path \in Paths(tree), k \in WalkKinds :
           LET Laid(r) == tree' = r.node /\ text' = r.text
           IN  Laid(Layout(WithLeaf(ShapeOf(tree), path, k), 0, 0, <<>>))
    /\ UNCHANGED <<uses, calls, op, res, walk, server>>

\* let mut nodes = Vec::new(); let mut cursor = tree.walk();
StartWalk ==
    /\ pc = "idle"
    /\ \E k \in SearchKinds : kind' = k
    /\ cursor' = <<>>
    /\ nodes' = <<>>
    /\ pc' = "visit"
    /\ UNCHANGED <<uses, calls, text, tree, op, res, server>>

\* the top of the outer loop: the node is pushed if its kind matches, then
\* goto_first_child
Visit ==
    /\ pc = "visit"
    /\ nodes' = IF NodeAt(tree, cursor).kind = kind
                THEN Append(nodes, NodeAt(tree, cursor)) ELSE nodes
    /\ IF HasFirstChild(tree, cursor)
       THEN cursor' = Append(cursor, 1) /\ pc' = "visit"
       ELSE cursor' = cursor /\ pc' = "sibling"
    /\ UNCHANGED <<uses, calls, text, tree, op, res, kind, server>>

\* the test of the inner loop: goto_next_sibling
GotoNextSibling ==
    /\ pc = "sibling"
    /\ IF HasNextSibling(tree, cursor)
       THEN cursor' = NextSibling(cursor) /\ pc' = "visit"
       ELSE cursor' = cursor /\ pc' = "parent"
    /\ UNCHANGED <<uses, calls, text, tree, op, res, kind, nodes, server>>

\* GotoParent that goes on with the inner loop when goto_parent fails
GotoParentUnchecked ==
    /\ pc = "parent"
    /\ cursor' = IF cursor = <<>> THEN cursor ELSE Front(cursor)
    /\ pc' = "sibling"
    /\ UNCHANGED <<uses, calls, text, tree, op, res, kind, nodes, server>>

\* the body of the inner loop: goto_parent, and return nodes when it fails
GotoParent ==
    /\ pc = "parent"
    /\ IF cursor = <<>>
       THEN cursor' = cursor /\ pc' = "returned"
       ELSE cursor' = Front(cursor) /\ pc' = "sibling"
    /\ UNCHANGED <<uses, calls, text, tree, op, res, kind, nodes, server>>

NextWalk ==
    \/ GrowTree
    \/ StartWalk
    \/ Visit
    \/ GotoNextSibling
    \/ GotoParent

SpecWalk == InitWalk /\ [][NextWalk]_vars

\* the loop is straight-line code: a walk that can make a move makes it
SpecWalkFair ==
    /\ InitWalk
    /\ [][NextWalk]_vars
    /\ WF_vars(Visit)
    /\ WF_vars(GotoNextSibling)
    /\ WF_vars(GotoParent)

(***************************************************************************)
(* TempestLanguageServer (language_server.rs).  Each notification starts a *)
(* handler; a handler runs from one await to the next in one step.         *)
(* handlers lists the handlers in the order the notifications arrived,     *)
(* each with the place it has reached (pc), the document it has built and  *)
(* the messages it has logged.                                             *)
(***************************************************************************)
Uris == {"file:///a.php", "file:///b.php"}

LanguageIds == {"php", "tempest-view", "plaintext"}

\* <?php alone, and <?php use function Tempest\view; view('a');
Sources ==
    { <<>>,
      <<UseDecl("decl", <<Clause(FALSE, Tracked, <<>>)>>),
        CallStmt(FALSE, <<"view">>, <<Pos(Str("a"))>>)>> }

\* Document { uri, text, tree, version }
Document(uri, parsed, version) ==
    [uri |-> uri, text |-> parsed.text, tree |-> parsed.tree, version |-> version]

\* DashMap::remove that empties the map
remove_all(m, k) == [x \in {} |-> m[x]]

\* DashMap::remove
remove(m, k) == [x \in DOMAIN m \ {k} |-> m[x]]

\* the handler of a notification that has just arrived
Handler(method, uri, language_id, source) ==
    [method |-> method, uri |-> uri, language_id |-> language_id,
     source |-> source, pc |-> "start", document |-> <<>>, logged |-> <<>>]

AllDone == \A i \in 1..Len(handlers) : handlers[i].pc = "done"

Engine == <<uses, calls, text, tree, op, res, walk>>

\* textDocument/didOpen arrives: did_open calls register_document
DidOpen(most) ==
    /\ Len(handlers) < most
    /\ \E uri \in Uris, language_id \in LanguageIds, source \in Sources :
           handlers' = Append(handlers, Handler("did_open", uri, language_id, source))
    /\ UNCHANGED <<Engine, documents>>

\* textDocument/didClose arrives: did_close calls unregister_document
DidClose(most) ==
    /\ Len(handlers) < most
    /\ \E uri \in Uris :
           handlers' = Append(handlers, Handler("did_close", uri, "", <<>>))
    /\ UNCHANGED <<Engine, documents>>

\* the notification arrives after the handlers before it have finished
DidOpenAlone == AllDone /\ DidOpen(MaxNotifications)

DidCloseAlone == AllDone /\ DidClose(MaxNotifications)

\* the notification arrives while handlers before it may be at an await
DidOpenAmong == DidOpen(MaxInterleaved)

DidCloseAmong == DidClose(MaxInterleaved)

\* register_document up to its first await: the language test, the parse,
\* the Document and the log message; the parser returns Err when its lock
\* is poisoned or tree-sitter gives no tree
RegisterParse(i) ==
    LET h == handlers[i]
        Warned == [h EXCEPT !.pc = "done",
                      !.logged = <<LogMessage("WARNING", "Skipping non-PHP document: {}",
                                              <<h.uri>>)>>]
        Failed == [h EXCEPT !.pc = "done",
                      !.logged = <<LogMessage("ERROR", "Could not parse document: {}",
                                              <<h.uri>>)>>]
        Registered(parsed) ==
            [h EXCEPT !.pc = "analyze",
                !.document = <<Document(h.uri, parsed, 1)>>,
                !.logged = <<LogMessage("INFO", "Registered document {}, parsed as:\n\n {}",
                                        <<h.uri>>)>>]
    IN  /\ h.method = "did_open"
        /\ h.pc = "start"
        /\ IF h.language_id # "php" /\ h.language_id # "tempest-view"
           THEN handlers' = [handlers EXCEPT ![i] = Warned]
           ELSE \/ handlers' = [handlers EXCEPT ![i] = Registered(Parse(h.source))]
                \/ handlers' = [handlers EXCEPT ![i] = Failed]
        /\ UNCHANGED <<Engine, documents>>

\* ViewIntelligence::analyze_document(..).await
RegisterAnalyze(i) ==
    LET h == handlers[i]
        Analyzed(messages) ==
            IF IsPanic(messages)
            THEN [h EXCEPT !.pc = "panicked"]
            ELSE [h EXCEPT !.pc = "insert", !.logged = h.logged \o messages.val]
    IN  /\ h.method = "did_open"
        /\ h.pc = "analyze"
        /\ handlers' =
               [handlers EXCEPT ![i] =
                   Analyzed(analyze_document(h.document[1].tree, h.document[1].text,
                                             h.uri))]
        /\ UNCHANGED <<Engine, documents>>

\* self.documents.insert(uri, document)
RegisterInsert(i) ==
    LET h == handlers[i]
    IN  /\ h.method = "did_open"
        /\ h.pc = "insert"
        /\ documents' = Insert(documents, h.uri, h.document[1])
        /\ handlers' = [handlers EXCEPT ![i].pc = "done"]
        /\ UNCHANGED Engine

\* self.documents.remove(&uri)
UnregisterRemove(i) ==
    LET h == handlers[i]
    IN  /\ h.method = "did_close"
        /\ h.pc = "start"
        /\ documents' = remove(documents, h.uri)
        /\ handlers' = [handlers EXCEPT ![i].pc = "log"]
        /\ UNCHANGED Engine

\* the log message of unregister_document
UnregisterLog(i) ==
    LET h == handlers[i]
    IN  /\ h.method = "did_close"
        /\ h.pc = "log"
        /\ handlers' =
               [handlers EXCEPT ![i].pc = "done",
                   ![i].logged = <<LogMessage("INFO", "Unregistered document {}",
                                              <<h.uri>>)>>]
        /\ UNCHANGED <<Engine, documents>>

\* notifications processed one at a time
NextServer ==
    \/ DidOpenAlone
    \/ DidCloseAlone
    \/ \E i \in 1..Len(handlers) : RegisterParse(i)
    \/ \E i \in 1..Len(handlers) : RegisterAnalyze(i)
    \/ \E i \in 1..Len(handlers) : RegisterInsert(i)
    \/ \E i \in 1..Len(handlers) : UnregisterRemove(i)
    \/ \E i \in 1..Len(handlers) : UnregisterLog(i)

SpecServer == Init /\ [][NextServer]_vars

\* handlers interleave at their await points
NextConcurrent ==
    \/ DidOpenAmong
    \/ DidCloseAmong
    \/ \E i \in 1..Len(handlers) : RegisterParse(i)
    \/ \E i \in 1..Len(handlers) : RegisterAnalyze(i)
    \/ \E i \in 1..Len(handlers) : RegisterInsert(i)
    \/ \E i \in 1..Len(handlers) : UnregisterRemove(i)
    \/ \E i \in 1..Len(handlers) : UnregisterLog(i)

SpecConcurrent == Init /\ [][NextConcurrent]_vars

(***************************************************************************)
(* Documents whose calls start on different lines: up to MaxLines call     *)
(* statements, some written over several lines with calls among their      *)
(* arguments.                                                              *)
(***************************************************************************)
\* view('a');          other(view('a'));
\* view('a',           view(view('a',
\*  view('b'));         'b'),
\*                      view('c'));
LinePool ==
    { CallStmt(FALSE, <<"view">>, <<Pos(Str("a"))>>),
      CallStmt(FALSE, <<"other">>, <<Pos(Call(FALSE, <<"view">>, <<Pos(Str("a"))>>))>>),
      CallStmt(FALSE, <<"view">>,
               <<Pos(Str("a")),
                 Arg(<<>>, Call(FALSE, <<"view">>, <<Pos(Str("b"))>>), TRUE)>>),
      CallStmt(FALSE, <<"view">>,
               <<Pos(Call(FALSE, <<"view">>,
                          <<Pos(Str("a")), Arg(<<>>, Str("b"), TRUE)>>)),
                 Arg(<<>>, Call(FALSE, <<"view">>, <<Pos(Str("c"))>>), TRUE)>>) }

AddLine ==
    /\ Len(calls) < MaxLines
    /\ \E c \in LinePool : SetSource(uses, Append(calls, c))

NextLines ==
    \/ AddImport
    \/ AddLine
    \/ AnalyzeImports
    \/ FindFunctionCalls
    \/ FindViewCalls
    \/ Analyze

SpecLines == Init /\ [][NextLines]_vars

(***************************************************************************)
(* The engine handed the tree of a document together with a text that is   *)
(* shorter than the document: spans of the tree end after the text.        *)
(***************************************************************************)
\* the offsets at which a use declaration or a call starts or ends
StatementOffsets(t) ==
    LET Of(ns) == UNION { {ns[i].sb, ns[i].eb} : i \in 1..Len(ns) }
    IN  Of(find_nodes_by_kind(t, "namespace_use_declaration"))
        \cup Of(find_nodes_by_kind(t, "function_call_expression"))

\* the engine is handed the tree with the text cut at one such offset
PassShorterText ==
    /\ op = "none"
    /\ Len(text) = tree.eb
    /\ \E k \in StatementOffsets(tree) :
           /\ k < Len(text)
           /\ text' = SubSeq(text, 1, k)
    /\ UNCHANGED <<uses, calls, tree, op, res, walk, server>>

\* ViewIntelligence::analyze_document on the pair, for the client of a server
AnalyzeDocument ==
    /\ op = "none"
    /\ op' = "analyze_document"
    /\ \E uri \in Uris : res' = analyze_document(tree, text, uri)
    /\ UNCHANGED <<uses, calls, text, tree, walk, server>>

NextPair ==
    \/ AddImport
    \/ AddStaleCall
    \/ PassShorterText
    \/ AnalyzeImports
    \/ FindFunctionCalls
    \/ FindViewCalls
    \/ Analyze
    \/ AnalyzeDocument

SpecPair == Init /\ [][NextPair]_vars

(***************************************************************************)
(* Vocabulary of the properties: what a statement of the source says.      *)
(***************************************************************************)
Seeds == {"\\Tempest\\view", "Tempest\\view"}

Remove(seq, i) == SubSeq(seq, 1, i - 1) \o SubSeq(seq, i + 1, Len(seq))

Replace(seq, i, x) == [seq EXCEPT ![i] = x]

Count(seq, x) == Cardinality({i \in 1..Len(seq) : seq[i] = x})

\* how many of the extracted or reported calls have the callee text name
Named(cs, name) == Cardinality({i \in 1..Len(cs) : cs[i].function_name = name})

\* how many calls of a call statement or expression spell their callee as the
\* bare name n, calls nested in its arguments included
RECURSIVE Spelled(_, _), SpelledIn(_, _)
Spelled(c, n) ==
    (IF ~c.lead /\ c.segs = <<n>> THEN 1 ELSE 0) + SpelledIn(c.args, n)

SpelledIn(args, n) ==
    IF args = <<>> THEN 0
    ELSE (IF Head(args).expr.e = "call" THEN Spelled(Head(args).expr, n) ELSE 0)
         + SpelledIn(Tail(args), n)

RECURSIVE SpelledAll(_, _)
SpelledAll(cs, n) ==
    IF cs = <<>> THEN 0 ELSE Spelled(Head(cs), n) + SpelledAll(Tail(cs), n)

\* the import map the engine computes for the source us \o calls
ImportsOf(us) ==
    LET parsed == Parse(us \o calls) IN analyze_imports(parsed.tree, parsed.text)

\* use function a\b [as c];  with a single clause
SingleFunctionUse(u) ==
    u.t = "use" /\ u.kw \in {"decl", "clause"} /\ Len(u.clauses) = 1

\* use function Tempest\view;
PlainTracked(u) ==
    SingleFunctionUse(u) /\ u.clauses[1].segs = Tracked /\ u.clauses[1].alias = <<>>

\* use function Tempest\view as a;
AliasTracked(u, a) ==
    SingleFunctionUse(u) /\ u.clauses[1].segs = Tracked /\ u.clauses[1].alias = <<a>>

\* use function prefix\{...};
GroupFunctionUse(u) == u.t = "group" /\ u.kw = "decl"

\* the group lists the bare name view
ListsView(u) ==
    \E k \in 1..Len(u.items) : u.items[k].segs = <<"view">> /\ u.items[k].alias = <<>>

\* no sub-clause of the group has the name view, as imported name or as alias
NoViewName(u) ==
    \A k \in 1..Len(u.items) :
        u.items[k].segs # <<"view">> /\ u.items[k].alias # <<"view">>

\* a use declaration that is no function import: no `function` keyword, and
\* the text of its first clause, if it has one, does not begin with "function"
NotFunctionUse(u) ==
    /\ u.kw = "none"
    /\ (u.t = "use" =>
           (u.clauses[1].lead \/ ~StartsWith(u.clauses[1].segs[1], "function")))

\* the statement names Tempest\view as what it imports
MentionsTracked(u) ==
    IF u.t = "use"
    THEN \E k \in 1..Len(u.clauses) : u.clauses[k].segs = Tracked
    ELSE u.prefix = <<"Tempest">>
         /\ \E k \in 1..Len(u.items) : u.items[k].segs = <<"view">>

(***************************************************************************)
(* Properties.                                                             *)
(***************************************************************************)
\* C1: the calls analyze and find_view_calls return are exactly the calls of
\* find_function_calls whose function_name is a key of the map of
\* analyze_imports: none outside the map is reported, none inside is left out.
C1_CorrelatedExactly ==
    op \in {"analyze", "find_view_calls"} =>
        LET all == find_function_calls(tree, text).val
            imp == analyze_imports(tree, text).val
            got == IF op = "analyze" THEN res.val.calls ELSE res.val
        IN  /\ res.ok
            /\ (op = "analyze" => res.val.imports = imp)
            /\ \A i \in 1..Len(got) :
                   /\ got[i].function_name \in DOMAIN imp
                   /\ Count(got, got[i]) = Count(all, got[i])
            /\ \A i \in 1..Len(all) :
                   (all[i].function_name \in DOMAIN imp
                       => Count(got, all[i]) = Count(all, all[i]))

\* a call is reported and another extracted call is filtered out
C1_Witness ==
    /\ op = "analyze"
    /\ res.ok
    /\ Len(res.val.calls) >= 1
    /\ Len(res.val.calls) < Len(find_function_calls(tree, text).val)

\* C2: whatever use declarations the document has, in whatever order, the map
\* of analyze_imports has both seeded keys, both classified DirectNamespace.
C2_SeedsKept ==
    op = "analyze_imports" =>
        /\ res.ok
        /\ \A k \in Seeds : k \in DOMAIN res.val /\ res.val[k] = DirectNamespace

\* two import statements registered their keys next to the seeds
C2_Witness ==
    /\ op = "analyze_imports"
    /\ Len(uses) = 2
    /\ res.ok
    /\ Cardinality(DOMAIN res.val) = 4
    /\ \A k \in Seeds : res.val[k] = DirectNamespace

\* C3: when no use declaration names Tempest\view, the map of analyze_imports
\* has exactly the two seeded entries.
C3_OnlySeeds ==
    (op = "analyze_imports" /\ \A i \in 1..Len(uses) : ~MentionsTracked(uses[i]))
        => res.ok /\ DOMAIN res.val = Seeds

\* C4: use function Tempest\view; registers "view" as FunctionImport (the
\* classification stays unless a later `use function Tempest\view as view;`
\* registers the key again), and every call spelled view is correlated.
C4_PlainImport ==
    /\ op = "analyze_imports" =>
           \A i \in 1..Len(uses) : PlainTracked(uses[i]) =>
               /\ res.ok
               /\ "view" \in DOMAIN res.val
               /\ ((\A j \in (i + 1)..Len(uses) : ~AliasTracked(uses[j], "view"))
                      => res.val["view"] = FunctionImport)
    /\ (op = "analyze" /\ \E i \in 1..Len(uses) : PlainTracked(uses[i])) =>
           /\ res.ok
           /\ "view" \in DOMAIN res.val.imports
           /\ Named(res.val.calls, "view") = SpelledAll(calls, "view")

\* the plain import alone, and a call view(...) correlated
C4_Witness ==
    /\ op = "analyze"
    /\ Len(uses) = 1
    /\ PlainTracked(uses[1])
    /\ res.ok
    /\ res.val.imports["view"] = FunctionImport
    /\ Named(res.val.calls, "view") >= 1

\* C5 as stated: use function Tempest\view as A; registers exactly the key A,
\* classified FunctionImportWithAlias(A), and not the key "view"; alone in a
\* document, A(...) is correlated and view(...) is not.
C5_AliasNeverView ==
    \A a \in {"render", "view"} :
        /\ (op = "analyze_imports" /\ Len(uses) = 1 /\ AliasTracked(uses[1], a)) =>
               /\ res.ok
               /\ DOMAIN res.val = Seeds \cup {a}
               /\ res.val[a] = FunctionImportWithAlias(a)
               /\ "view" \notin DOMAIN res.val
        /\ (op = "analyze" /\ Len(uses) = 1 /\ AliasTracked(uses[1], a)) =>
               /\ res.ok
               /\ Named(res.val.calls, a) = SpelledAll(calls, a)
               /\ Named(res.val.calls, "view") = 0

\* C5 amended: the same for every alias A other than "view"; with A = "view"
\* the one key registered is "view", classified
\* FunctionImportWithAlias("view"), and view(...) is correlated.
C5_AliasImport ==
    \A a \in {"render", "view"} :
        /\ (op = "analyze_imports" /\ Len(uses) = 1 /\ AliasTracked(uses[1], a)) =>
               /\ res.ok
               /\ DOMAIN res.val = Seeds \cup {a}
               /\ res.val[a] = FunctionImportWithAlias(a)
               /\ (a # "view" => "view" \notin DOMAIN res.val)
        /\ (op = "analyze" /\ Len(uses) = 1 /\ AliasTracked(uses[1], a)) =>
               /\ res.ok
               /\ Named(res.val.calls, a) = SpelledAll(calls, a)
               /\ (a # "view" => Named(res.val.calls, "view") = 0)
        /\ (op = "analyze_imports" /\ a # "view") =>
               \A i \in 1..Len(uses) : AliasTracked(uses[i], a) =>
                   /\ res.ok
                   /\ a \in DOMAIN res.val
                   /\ res.val[a] = FunctionImportWithAlias(a)

\* the alias import alone, and a call render(...) correlated
C5_Witness ==
    /\ op = "analyze"
    /\ Len(uses) = 1
    /\ AliasTracked(uses[1], "render")
    /\ res.ok
    /\ DOMAIN res.val.imports = Seeds \cup {"render"}
    /\ Named(res.val.calls, "render") = 1

\* C6: use function Tempest\{..., view, ...}; with the bare name view at any
\* place of the group changes the import map exactly as
\* use function Tempest\view; does: it registers "view" as FunctionImport and
\* none of the other names it lists.
C6_GroupLikePlain ==
    op = "analyze_imports" =>
        \A i \in 1..Len(uses) :
            (GroupFunctionUse(uses[i]) /\ uses[i].prefix = <<"Tempest">>
             /\ ListsView(uses[i])) =>
                /\ res.ok
                /\ res = ImportsOf(Replace(uses, i,
                             UseDecl("decl", <<Clause(FALSE, Tracked, <<>>)>>)))
                /\ "view" \in DOMAIN res.val
                /\ (Len(uses) = 1 =>
                       /\ DOMAIN res.val = Seeds \cup {"view"}
                       /\ res.val["view"] = FunctionImport)

\* a group with view in first place and another name after it registered view
C6_Witness ==
    /\ op = "analyze_imports"
    /\ Len(uses) = 1
    /\ GroupFunctionUse(uses[1])
    /\ uses[1].prefix = <<"Tempest">>
    /\ uses[1].items[1].segs = <<"view">>
    /\ Len(uses[1].items) = 2
    /\ res.ok
    /\ DOMAIN res.val = Seeds \cup {"view"}
    /\ res.val["view"] = FunctionImport

\* C7: a grouped function import none of whose sub-clauses has the name view
\* adds nothing to the import map; a call view(...) of a document with only
\* such imports is extracted but not correlated.
C7_GroupWithoutView ==
    LET OnlySuch == /\ Len(uses) >= 1
                    /\ \A i \in 1..Len(uses) :
                           GroupFunctionUse(uses[i]) /\ NoViewName(uses[i])
    IN  /\ op = "analyze_imports" =>
               \A i \in 1..Len(uses) :
                   (GroupFunctionUse(uses[i]) /\ NoViewName(uses[i])) =>
                       res.ok /\ res = ImportsOf(Remove(uses, i))
        /\ (op = "analyze_imports" /\ OnlySuch) => DOMAIN res.val = Seeds
        /\ (op = "find_function_calls" /\ OnlySuch) =>
               res.ok /\ Named(res.val, "view") = SpelledAll(calls, "view")
        /\ (op = "analyze" /\ OnlySuch) =>
               res.ok /\ Named(res.val.calls, "view") = 0
        /\ (op = "find_view_calls" /\ OnlySuch) =>
               res.ok /\ Named(res.val, "view") = 0

\* use function Tempest\{root_path, helper}; and a call view(...): extracted,
\* and no call correlated
C7_Witness ==
    /\ op = "analyze"
    /\ Len(uses) = 1
    /\ GroupFunctionUse(uses[1])
    /\ NoViewName(uses[1])
    /\ SpelledAll(calls, "view") >= 1
    /\ Named(find_function_calls(tree, text).val, "view") >= 1
    /\ res.ok
    /\ res.val.calls = <<>>

\* C8: a single-clause function import adds an entry only if its segments
\* are exactly Tempest, view: any other, aliased or not, registers nothing.
C8_OnlyTrackedSingle ==
    op = "analyze_imports" =>
        \A i \in 1..Len(uses) :
            (SingleFunctionUse(uses[i]) /\ uses[i].clauses[1].segs # Tracked) =>
                /\ res.ok
                /\ res = ImportsOf(Remove(uses, i))
                /\ (Len(uses) = 1 => DOMAIN res.val = Seeds)

\* use function Tempest\View\view; alone registered nothing
C8_Witness ==
    /\ op = "analyze_imports"
    /\ Len(uses) = 1
    /\ SingleFunctionUse(uses[1])
    /\ uses[1].clauses[1].segs = <<"Tempest", "View", "view">>
    /\ res.ok
    /\ DOMAIN res.val = Seeds

\* C9: a grouped function import whose shared prefix is not exactly Tempest
\* adds nothing to the import map, and view(...) is not correlated.
C9_GroupOtherNamespace ==
    /\ op = "analyze_imports" =>
           \A i \in 1..Len(uses) :
               (GroupFunctionUse(uses[i]) /\ uses[i].prefix # <<"Tempest">>) =>
                   res.ok /\ res = ImportsOf(Remove(uses, i))
    /\ (op = "analyze" /\ Len(uses) = 1 /\ GroupFunctionUse(uses[1])
        /\ uses[1].prefix # <<"Tempest">>) =>
           res.ok /\ Named(res.val.calls, "view") = 0

\* C10: a use declaration that is no function import adds nothing to the
\* import map and analyze_imports does not fail on it.
C10_NotFunctionImport ==
    op = "analyze_imports" =>
        /\ res.ok
        /\ \A i \in 1..Len(uses) :
               NotFunctionUse(uses[i]) =>
                   /\ res = ImportsOf(Remove(uses, i))
                   /\ (Len(uses) = 1 => DOMAIN res.val = Seeds)

\* use Tempest\view; alone: analyze_imports returned the two seeds
C10_Witness ==
    /\ op = "analyze_imports"
    /\ uses = <<UseDecl("none", <<Clause(FALSE, Tracked, <<>>)>>)>>
    /\ res.ok
    /\ DOMAIN res.val = Seeds

\* the import map the engine computes for the statement u alone
AloneOf(u) == ImportsOf(<<u>>).val

\* the keys the statement u registers when it is alone in a document
KeysOf(u) == DOMAIN AloneOf(u) \ Seeds

\* C11: of the import statements that register a key, the last one in source
\* order decides the classification stored under it:
\* `use function Tempest\view as view;` then `use function Tempest\view;`
\* leaves "view" FunctionImport, the opposite order leaves it
\* FunctionImportWithAlias("view").
C11_LaterOverwrites ==
    op = "analyze_imports" =>
        /\ res.ok
        /\ \A i \in 1..Len(uses) : \A k \in KeysOf(uses[i]) :
               (\A j \in (i + 1)..Len(uses) : k \notin KeysOf(uses[j]))
                   => (k \in DOMAIN res.val /\ res.val[k] = AloneOf(uses[i])[k])
        /\ \A i \in 1..Len(uses) : \A j \in (i + 1)..Len(uses) :
               (/\ \/ AliasTracked(uses[i], "view") /\ PlainTracked(uses[j])
                   \/ PlainTracked(uses[i]) /\ AliasTracked(uses[j], "view")
                /\ \A l \in (j + 1)..Len(uses) : "view" \notin KeysOf(uses[l]))
                   => res.val["view"] =
                          (IF PlainTracked(uses[j]) THEN FunctionImport
                           ELSE FunctionImportWithAlias("view"))

\* the aliased import of view followed by the plain one: "view" ends as
\* FunctionImport
C11_Witness ==
    /\ op = "analyze_imports"
    /\ Len(uses) = 2
    /\ AliasTracked(uses[1], "view")
    /\ PlainTracked(uses[2])
    /\ res.ok
    /\ res.val["view"] = FunctionImport

\* the plain import followed by the aliased one: "view" ends as
\* FunctionImportWithAlias("view")
C11_WitnessOpposite ==
    /\ op = "analyze_imports"
    /\ Len(uses) = 2
    /\ PlainTracked(uses[1])
    /\ AliasTracked(uses[2], "view")
    /\ res.ok
    /\ res.val["view"] = FunctionImportWithAlias("view")

\* the callee of a call statement as it is written: [\] segment (\ segment)*
CalleeText(c) == (IF c.lead THEN "\\" ELSE "") \o Join(c.segs, "\\")

\* the call statements of the document whose callee is written as name
Written(name) == SelectSeq(calls, LAMBDA c : CalleeText(c) = name)

\* the reported calls whose function_name is name
Reported(cs, name) == SelectSeq(cs, LAMBDA c : c.function_name = name)

\* C12: in every document, with or without import statements, every call
\* written Tempest\view(...) or \Tempest\view(...) is correlated, with one
\* parameter per argument; a document with each of the two spellings once
\* and no other call yields exactly 2 correlated calls of 1 parameter each.
C12_DirectNamespaceCalls ==
    op \in {"analyze", "find_view_calls"} =>
        LET got == IF op = "analyze" THEN res.val.calls ELSE res.val
        IN  /\ res.ok
            /\ \A name \in Seeds :
                   LET rep == Reported(got, name)
                       wri == Written(name)
                   IN  /\ Len(rep) = Len(wri)
                       /\ \A i \in 1..Len(rep) :
                              Len(rep[i].parameters) = Len(wri[i].args)
            /\ (/\ Len(calls) = 2
                /\ {CalleeText(calls[1]), CalleeText(calls[2])} = Seeds)
                   => (/\ Len(got) = 2
                       /\ \A i \in 1..2 : Len(got[i].parameters) = 1)

\* Tempest\view('a'); then \Tempest\view('a'); without any import: both
\* correlated, one parameter each
C12_Witness ==
    /\ op = "analyze"
    /\ uses = <<>>
    /\ Len(calls) = 2
    /\ CalleeText(calls[1]) = "Tempest\\view"
    /\ CalleeText(calls[2]) = "\\Tempest\\view"
    /\ res.ok
    /\ Len(res.val.calls) = 2
    /\ res.val.calls[1].function_name = "Tempest\\view"
    /\ res.val.calls[2].function_name = "\\Tempest\\view"
    /\ \A i \in 1..2 : Len(res.val.calls[i].parameters) = 1

\* the keys the imports of the document are meant to register: the seeds,
\* "view" for use function Tempest\view; and the alias of an aliased import
RegisteredNames ==
    Seeds
    \cup {"view" : i \in {i \in 1..Len(uses) : PlainTracked(uses[i])}}
    \cup {a \in {"render", "view"} : \E i \in 1..Len(uses) : AliasTracked(uses[i], a)}

FourSpellings == {"view", "render", "Tempest\\view", "\\Tempest\\view"}

\* C13: the function_name of a reported call is the callee as it is written
\* and is looked up in the import map as it is: the extracted calls carry the
\* written callees in order, the correlated calls are those whose written
\* callee is a registered key, and a document that registers view and render
\* and uses the four spellings once each has exactly 4 correlated calls, one
\* per spelling.
C13_VerbatimNames ==
    /\ op = "find_function_calls" =>
           /\ res.ok
           /\ Len(res.val) = Len(calls)
           /\ \A i \in 1..Len(calls) : res.val[i].function_name = CalleeText(calls[i])
    /\ op \in {"analyze", "find_view_calls"} =>
           LET got == IF op = "analyze" THEN res.val.calls ELSE res.val
               kept == SelectSeq(calls, LAMBDA c : CalleeText(c) \in RegisteredNames)
           IN  /\ res.ok
               /\ Len(got) = Len(kept)
               /\ \A i \in 1..Len(kept) : got[i].function_name = CalleeText(kept[i])
               /\ (/\ {"view", "render"} \subseteq RegisteredNames
                   /\ Len(calls) = 4
                   /\ {CalleeText(calls[i]) : i \in 1..4} = FourSpellings)
                      => (/\ Len(got) = 4
                          /\ \A name \in FourSpellings : Len(Reported(got, name)) = 1)

\* both imports and the four spellings once each: 4 correlated calls, the
\* leading-backslash spelling kept as written
C13_Witness ==
    /\ op = "analyze"
    /\ {"view", "render"} \subseteq RegisteredNames
    /\ Len(calls) = 4
    /\ {CalleeText(calls[i]) : i \in 1..4} = FourSpellings
    /\ res.ok
    /\ DOMAIN res.val.imports = FourSpellings
    /\ Len(res.val.calls) = 4
    /\ \E i \in 1..4 : res.val.calls[i].function_name = "\\Tempest\\view"

\* an expression, an argument and a call as they are written in the source:
\* arguments are separated by a comma and a space, or by a comma and a line
\* break with one space of indentation for an argument on a line of its own
RECURSIVE CallText(_), ExprText(_), ArgsText(_, _)
CallText(c) == CalleeText(c) \o "(" \o ArgsText(c.args, 1) \o ")"

ExprText(e) ==
    IF e.e = "str" THEN "'" \o e.s \o "'"
    ELSE IF e.e = "cat" THEN "__DIR__ . '" \o e.s \o "'"
    ELSE CallText(e)

ArgsText(args, i) ==
    IF i > Len(args) THEN ""
    ELSE (IF args[i].nl THEN (IF i > 1 THEN ",\n " ELSE "\n ")
          ELSE (IF i > 1 THEN ", " ELSE ""))
         \o (IF args[i].name # <<>> THEN args[i].name[1] \o ": " ELSE "")
         \o ExprText(args[i].expr)
         \o ArgsText(args, i + 1)

ArgText(a) ==
    (IF a.name # <<>> THEN a.name[1] \o ": " ELSE "") \o ExprText(a.expr)

\* the calls a call statement or expression writes, the outer call first,
\* then the calls in its arguments from left to right
RECURSIVE WrittenCalls(_), WrittenIn(_)
WrittenCalls(c) == <<c>> \o WrittenIn(c.args)

WrittenIn(args) ==
    IF args = <<>> THEN <<>>
    ELSE (IF Head(args).expr.e = "call" THEN WrittenCalls(Head(args).expr) ELSE <<>>)
         \o WrittenIn(Tail(args))

RECURSIVE WrittenAll(_)
WrittenAll(cs) ==
    IF cs = <<>> THEN <<>> ELSE WrittenCalls(Head(cs)) \o WrittenAll(Tail(cs))

\* C14: a positional argument yields a parameter without name whose value and
\* raw_text are both the text of the whole argument as written.
C14_PositionalParameter ==
    op = "find_function_calls" =>
        LET written == WrittenAll(calls)
        IN  /\ res.ok
            /\ Len(res.val) = Len(written)
            /\ \A i \in 1..Len(written) :
                   \A k \in 1..Len(written[i].args) :
                       written[i].args[k].name = <<>> =>
                           /\ k <= Len(res.val[i].parameters)
                           /\ res.val[i].parameters[k] =
                                  ViewParameter(<<>>, ArgText(written[i].args[k]),
                                                ArgText(written[i].args[k]))

\* view(view('a')): the parameter of the outer call is the inner call as
\* written
C14_Witness ==
    /\ op = "find_function_calls"
    /\ Len(calls) = 1
    /\ res.ok
    /\ Len(res.val) = 2
    /\ res.val[1].parameters = <<ViewParameter(<<>>, "view('a')", "view('a')")>>
    /\ res.val[2].parameters = <<ViewParameter(<<>>, "'a'", "'a'")>>

\* C15: a named argument n: expr yields a parameter with name n, raw_text
\* the whole argument as written, name and colon included, and value the
\* expression alone; path: __DIR__ . '/home.view.php' has the value
\* __DIR__ . '/home.view.php'.
C15_NamedParameter ==
    op = "find_function_calls" =>
        LET written == WrittenAll(calls)
        IN  /\ res.ok
            /\ Len(res.val) = Len(written)
            /\ \A i \in 1..Len(written) :
                   \A k \in 1..Len(written[i].args) :
                       written[i].args[k].name # <<>> =>
                           /\ k <= Len(res.val[i].parameters)
                           /\ res.val[i].parameters[k] =
                                  ViewParameter(written[i].args[k].name,
                                                ExprText(written[i].args[k].expr),
                                                ArgText(written[i].args[k]))

\* view(path: __DIR__ . '/home.view.php')
C15_Witness ==
    /\ op = "find_function_calls"
    /\ res.ok
    /\ Len(res.val) = 1
    /\ res.val[1].parameters =
           <<ViewParameter(<<"path">>, "__DIR__ . '/home.view.php'",
                           "path: __DIR__ . '/home.view.php'")>>

\* C16: the parameters of a call are its arguments, one entry each, in the
\* order they are written, also when they are written on several lines;
\* parentheses and commas yield no entry.
C16_ParametersInOrder ==
    op = "find_function_calls" =>
        LET written == WrittenAll(calls)
        IN  /\ res.ok
            /\ Len(res.val) = Len(written)
            /\ \A i \in 1..Len(written) :
                   /\ Len(res.val[i].parameters) = Len(written[i].args)
                   /\ \A k \in 1..Len(written[i].args) :
                          res.val[i].parameters[k].raw_text =
                              ArgText(written[i].args[k])

\* view('a',\n 'b',\n 'c'): three parameters in the order written
C16_Witness ==
    /\ op = "find_function_calls"
    /\ res.ok
    /\ Len(res.val) = 1
    /\ Len(res.val[1].parameters) = 3
    /\ res.val[1].text = "view('a',\n 'b',\n 'c')"
    /\ [k \in 1..3 |-> res.val[1].parameters[k].value] = <<"'a'", "'b'", "'c'">>

\* a can be obtained from b by leaving elements out
RECURSIVE IsSubsequence(_, _)
IsSubsequence(a, b) ==
    IF a = <<>> THEN TRUE
    ELSE IF b = <<>> THEN FALSE
    ELSE IF Head(a) = Head(b) THEN IsSubsequence(Tail(a), Tail(b))
    ELSE IsSubsequence(a, Tail(b))

\* C19: find_function_calls lists the calls in the order they are written,
\* an outer call before the calls in its arguments, and the calls of the
\* final result are a subsequence of that list; for view(view('a')) with
\* view imported the outer call precedes the inner one.
C19_TraversalOrder ==
    /\ op = "find_function_calls" =>
           LET written == WrittenAll(calls)
           IN  /\ res.ok
               /\ Len(res.val) = Len(written)
               /\ \A i \in 1..Len(written) :
                      /\ res.val[i].function_name = CalleeText(written[i])
                      /\ res.val[i].text = CallText(written[i])
    /\ op \in {"analyze", "find_view_calls"} =>
           LET got == IF op = "analyze" THEN res.val.calls ELSE res.val
           IN  /\ res.ok
               /\ IsSubsequence(got, find_function_calls(tree, text).val)
               /\ ("view" \in DOMAIN analyze_imports(tree, text).val
                   /\ Len(calls) = 1 /\ CallText(calls[1]) = "view(view('a'))")
                      => [i \in 1..Len(got) |-> got[i].text]
                             = <<"view(view('a'))", "view('a')">>

\* use function Tempest\view; and view(view('a')): outer call, then inner call
C19_Witness ==
    /\ op = "analyze"
    /\ Len(uses) = 1
    /\ PlainTracked(uses[1])
    /\ res.ok
    /\ Len(res.val.calls) = 2
    /\ res.val.calls[1].text = "view(view('a'))"
    /\ res.val.calls[2].text = "view('a')"

\* the text the tree of the document was parsed from
CleanText == Parse(uses \o calls).text

\* the offsets at which the text handed to the engine is not the text clean
StaleOffsets(clean) ==
    {k \in 0..(Len(text) - 1) : SubSeq(text, k + 1, k + 1) # SubSeq(clean, k + 1, k + 1)}

\* the call nodes of the tree, in the order the calls are written
CallNodes == find_nodes_by_kind(tree, "function_call_expression")

\* the callee text or the whole-call text of the call node cannot be
\* extracted: the callee or the call starts or ends inside a character
BadCall(n, stale) == stale \cap {n.sb, n.kids[1].eb, n.eb} # {}

\* no byte of the call node differs from the text the tree was parsed from
Untouched(n, stale) == \A k \in stale : k < n.sb \/ k >= n.eb

InvalidShape(u) == SingleFunctionUse(u) /\ Len(u.clauses[1].segs) < 2

\* the namespace_use_declaration call_nodes of the tree, in source order
UseNodes == find_nodes_by_kind(tree, "namespace_use_declaration")

\* C21: an import statement of invalid shape (a single clause with fewer than
\* two qualified-name segments, `use function view;`) is rejected as
\* InvalidImportFormat, analyze_imports still returns Ok, and the import map
\* is the one of the document without that statement, whatever statements
\* come before and after it.
C21_InvalidShapeSkipped ==
    op = "analyze_imports" =>
        /\ res.ok
        /\ \A i \in 1..Len(uses) :
               InvalidShape(uses[i]) =>
                   /\ parse_use_declaration_ast(UseNodes[i], text)
                          = Err("InvalidImportFormat: Invalid qualified name")
                   /\ res = ImportsOf(Remove(uses, i))

\* use function view; followed by use function Tempest\view as render;: the
\* second statement is registered
C21_Witness ==
    /\ op = "analyze_imports"
    /\ Len(uses) = 2
    /\ InvalidShape(uses[1])
    /\ AliasTracked(uses[2], "render")
    /\ res.ok
    /\ DOMAIN res.val = Seeds \cup {"render"}

\* the nodes of a tree in depth-first pre-order: a node, then the nodes of
\* its subtrees from left to right
RECURSIVE PreOrder(_), PreOrderOf(_, _)
PreOrder(node) == <<node>> \o PreOrderOf(node.kids, 1)

PreOrderOf(kids, i) ==
    IF i > Len(kids) THEN <<>> ELSE PreOrder(kids[i]) \o PreOrderOf(kids, i + 1)

\* the nodes of kind k in pre-order
OfKind(ns, k) == SelectSeq(ns, LAMBDA n : n.kind = k)

\* C22: on every tree and for every kind the cursor loop returns exactly the
\* nodes of that kind, the root included, each once, in depth-first
\* pre-order; while it runs, the nodes pushed so far are a prefix of that
\* list.  The function find_nodes_by_kind the analyzers call returns the same.
C22_PreOrderExactly ==
    pc # "idle" =>
        LET Matching(want) ==
                /\ Len(nodes) <= Len(want)
                /\ nodes = SubSeq(want, 1, Len(nodes))
                /\ \A i, j \in 1..Len(nodes) : nodes[i].id = nodes[j].id => i = j
                /\ (pc = "returned" =>
                       /\ nodes = want
                       /\ find_nodes_by_kind(tree, kind) = want
                       /\ Len(want) = Cardinality({p \in Paths(tree) :
                                                       NodeAt(tree, p).kind = kind}))
        IN  Matching(OfKind(PreOrder(tree), kind))

\* a walk returned the root, a grandchild and, after climbing two levels, a
\* later child of the root
C22_Witness ==
    /\ pc = "returned"
    /\ Len(nodes) = 3
    /\ nodes[1].id = <<>>
    /\ nodes[2].id = <<1, 1, 1>>
    /\ nodes[3].id = <<2>>

\* the depth of the deepest node of a tree, the root at depth 0
RECURSIVE Depth(_)
Depth(node) ==
    IF node.kids = <<>> THEN 0
    ELSE 1 + CHOOSE d \in {Depth(node.kids[i]) : i \in 1..Len(node.kids)} :
                 \A i \in 1..Len(node.kids) : Depth(node.kids[i]) <= d

\* the last node of a tree in pre-order
LastNode(node) == PreOrder(node)[Len(PreOrder(node))]

\* C23: on every tree the cursor loop terminates: a walk that has started
\* reaches, after finitely many cursor moves, the failing goto_parent at the
\* root and returns.
C23_WalkTerminates == (pc = "visit") ~> (pc = "returned" /\ cursor = <<>>)

\* a walk returned on a tree whose last node in pre-order is at the greatest
\* depth, three levels below the root
C23_Witness ==
    /\ pc = "returned"
    /\ Depth(tree) = 3
    /\ Len(LastNode(tree).id) = 3

\* a walk returned on a tree that is a single root node
C23_WitnessRoot ==
    /\ pc = "returned"
    /\ tree.kids = <<>>

\* the handler is a register_document call that gave up: the language id is
\* neither php nor tempest-view, or the text did not parse
GaveUp(h) ==
    /\ h.method = "did_open"
    /\ h.pc = "done"
    /\ h.logged # <<>>
    /\ h.logged[1].type \in {"WARNING", "ERROR"}

\* the registry differs at most at the entry of uri
SameButFor(uri) ==
    \A u \in Uris \ {uri} :
        /\ u \in DOMAIN documents' <=> u \in DOMAIN documents
        /\ u \in DOMAIN documents => documents'[u] = documents[u]

\* C24: with notifications processed one at a time, the step of
\* unregister_document that removes the entry leaves the URI out of the
\* registry and every other entry as it was, the URI stays out until a later
\* did_open registers it, and a register_document call for another language
\* id or for a text that does not parse takes no step that changes the
\* registry.
C24_RegistryFrame ==
    /\ [](\A i \in 1..Len(handlers) :
             (/\ handlers[i].method = "did_close"
              /\ handlers[i].pc \in {"log", "done"}
              /\ \A j \in (i + 1)..Len(handlers) :
                     ~(handlers[j].method = "did_open" /\ handlers[j].uri = handlers[i].uri
                       /\ handlers[j].pc = "done"))
                 => handlers[i].uri \notin DOMAIN documents)
    /\ [][\A i \in 1..Len(handlers) :
             /\ (/\ handlers[i].method = "did_close"
                 /\ handlers[i].pc = "start"
                 /\ handlers'[i].pc # "start")
                    => (/\ handlers[i].uri \notin DOMAIN documents'
                        /\ SameButFor(handlers[i].uri))
             /\ (/\ handlers[i].method = "did_close"
                 /\ handlers[i].pc = "log"
                 /\ handlers'[i] # handlers[i])
                    => documents' = documents
             /\ (/\ handlers[i].method = "did_open"
                 /\ handlers[i].language_id \notin {"php", "tempest-view"}
                 /\ handlers'[i] # handlers[i])
                    => (documents' = documents /\ GaveUp(handlers'[i]))
             /\ (handlers'[i] # handlers[i] /\ GaveUp(handlers'[i]))
                    => (handlers[i].pc = "start" /\ documents' = documents)]_vars

\* both documents are registered and the first is closed: its entry is gone,
\* the entry of the other is the document registered for it
C24_Witness ==
    /\ Len(handlers) = 3
    /\ AllDone
    /\ handlers[1].method = "did_open"
    /\ handlers[2].method = "did_open"
    /\ handlers[3].method = "did_close"
    /\ handlers[1].uri # handlers[2].uri
    /\ handlers[3].uri = handlers[1].uri
    /\ handlers[2].source # <<>>
    /\ DOMAIN documents = {handlers[2].uri}
    /\ documents[handlers[2].uri] = handlers[2].document[1]

\* a registered document, then a did_open of another language id and one of a
\* text that does not parse: the registry still holds the first document alone
C24_WitnessGaveUp ==
    /\ Len(handlers) = 3
    /\ AllDone
    /\ ~GaveUp(handlers[1])
    /\ GaveUp(handlers[2]) /\ handlers[2].logged[1].type = "WARNING"
    /\ GaveUp(handlers[3]) /\ handlers[3].logged[1].type = "ERROR"
    /\ DOMAIN documents = {handlers[1].uri}

\* a did_close of a URI that is not registered: the registry stays empty
C24_WitnessNotRegistered ==
    /\ Len(handlers) = 1
    /\ AllDone
    /\ handlers[1].method = "did_close"
    /\ documents = NoDocuments

\* C29: with the handlers of did_open and did_close interleaving at their
\* await points, once every handler has finished, a URI whose did_close
\* arrived after every did_open for it is not in the registry.
C29_ClosedNotRegistered ==
    AllDone =>
        \A i \in 1..Len(handlers) :
            (/\ handlers[i].method = "did_close"
             /\ \A j \in (i + 1)..Len(handlers) :
                    ~(handlers[j].method = "did_open"
                      /\ handlers[j].uri = handlers[i].uri))
                => handlers[i].uri \notin DOMAIN documents

\* the key the classification v says its entry is stored under
AgreesWith(k, v) ==
    CASE v.tag = "FunctionImportWithAlias" -> k = v.alias
      [] v.tag = "FunctionImport" -> k = "view"
      [] v.tag = "DirectNamespace" -> k \in Seeds
      [] OTHER -> FALSE

\* C26: in every map analyze_imports returns (also as the imports of
\* analyze), key and classification agree: FunctionImportWithAlias(a) is
\* stored under a, FunctionImport under "view", DirectNamespace under one of
\* the two seeded keys, also when statements register the same key.
C26_KeyAgrees ==
    /\ op = "analyze_imports" =>
           res.ok /\ \A k \in DOMAIN res.val : AgreesWith(k, res.val[k])
    /\ (op = "analyze" /\ res.ok) =>
           \A k \in DOMAIN res.val.imports : AgreesWith(k, res.val.imports[k])

\* an aliased and a plain import next to the seeds: the three
\* classifications in one map
C26_Witness ==
    /\ op = "analyze_imports"
    /\ \E i, j \in 1..Len(uses) : AliasTracked(uses[i], "render") /\ PlainTracked(uses[j])
    /\ res.ok
    /\ DOMAIN res.val = Seeds \cup {"view", "render"}
    /\ res.val["render"] = FunctionImportWithAlias("render")
    /\ res.val["view"] = FunctionImport
    /\ \A k \in Seeds : res.val[k] = DirectNamespace

\* two statements that register the same key "view", the aliased one last
C26_WitnessColliding ==
    /\ op = "analyze_imports"
    /\ Len(uses) = 2
    /\ PlainTracked(uses[1])
    /\ AliasTracked(uses[2], "view")
    /\ res.ok
    /\ DOMAIN res.val = Seeds \cup {"view"}
    /\ res.val["view"] = FunctionImportWithAlias("view")

\* use function a\b, c\d;   several comma-separated clauses
SeveralClauses(u) == u.t = "use" /\ u.kw # "none" /\ Len(u.clauses) > 1

\* how many use declarations of the document have the `function` keyword
FunctionUses == Cardinality({i \in 1..Len(uses) : uses[i].kw # "none"})

\* C27: each use declaration contributes at most one entry to the import
\* map, so the map has at most 2 + (number of function use declarations)
\* entries; of several comma-separated clauses only the first is examined:
\* `use function Foo\bar, Tempest\view;` registers nothing and
\* `use function Tempest\view, Foo\bar;` registers "view".
C27_OneEntryPerDeclaration ==
    op = "analyze_imports" =>
        /\ res.ok
        /\ Cardinality(DOMAIN res.val) <= 2 + FunctionUses
        /\ \A i \in 1..Len(uses) :
               /\ Cardinality(KeysOf(uses[i])) <= 1
               /\ uses[i].kw = "none" => KeysOf(uses[i]) = {}
               /\ SeveralClauses(uses[i]) =>
                      KeysOf(uses[i]) =
                          (IF uses[i].clauses[1].segs = Tracked
                           THEN {"view"} ELSE {})
        /\ DOMAIN res.val = Seeds \cup UNION {KeysOf(uses[i]) : i \in 1..Len(uses)}

\* `use function Foo\bar, Tempest\view;` alone registers nothing
C27_Witness ==
    /\ op = "analyze_imports"
    /\ uses = <<UseDecl("decl", <<Clause(FALSE, <<"Foo", "bar">>, <<>>),
                                  Clause(FALSE, Tracked, <<>>)>>)>>
    /\ res.ok
    /\ DOMAIN res.val = Seeds

\* `use function Tempest\view, Foo\bar;` alone registers "view"
C27_WitnessFirst ==
    /\ op = "analyze_imports"
    /\ uses = <<UseDecl("decl", <<Clause(FALSE, Tracked, <<>>),
                                  Clause(FALSE, <<"Foo", "bar">>, <<>>)>>)>>
    /\ res.ok
    /\ DOMAIN res.val = Seeds \cup {"view"}
    /\ res.val["view"] = FunctionImport

\* two function use declarations, two entries next to the seeds
C27_WitnessFull ==
    /\ op = "analyze_imports"
    /\ FunctionUses = 2
    /\ res.ok
    /\ Cardinality(DOMAIN res.val) = 4

\* a sub-clause of the group has a name child with the text view: the
\* imported name or the alias
HasViewName(u) ==
    \E k \in 1..Len(u.items) :
        u.items[k].segs = <<"view">> \/ u.items[k].alias = <<"view">>

\* the aliases the sub-clauses of the group declare
GroupAliases(u) ==
    {u.items[k].alias[1] : k \in {n \in 1..Len(u.items) : u.items[n].alias # <<>>}}

\* C28: a grouped function import registers no alias: it registers "view" as
\* FunctionImport when a name child of one of its sub-clauses has the text
\* "view" and nothing otherwise, so `use function Tempest\{view as render};`
\* registers "view" and not "render" (render(...) is not correlated) and
\* `use function Tempest\{helper as view};` registers "view" too.
C28_GroupAliasNotRegistered ==
    /\ op = "analyze_imports" =>
           /\ res.ok
           /\ \A i \in 1..Len(uses) : GroupFunctionUse(uses[i]) =>
                  /\ KeysOf(uses[i]) = (IF HasViewName(uses[i]) THEN {"view"} ELSE {})
                  /\ (/\ HasViewName(uses[i])
                      /\ \A j \in (i + 1)..Len(uses) : KeysOf(uses[j]) = {})
                         => ("view" \in DOMAIN res.val
                             /\ res.val["view"] = FunctionImport)
                  /\ \A a \in GroupAliases(uses[i]) \ {"view"} :
                         a \in DOMAIN res.val =>
                             \E j \in 1..Len(uses) : AliasTracked(uses[j], a)
    /\ (/\ op = "analyze"
        /\ \A i \in 1..Len(uses) : GroupFunctionUse(uses[i])) =>
           /\ res.ok
           /\ Named(res.val.calls, "render") = 0

\* `use function Tempest\{view as render};` and the call render('a'): "view"
\* is registered as FunctionImport, "render" is not, the call is not reported
C28_Witness ==
    /\ op = "analyze"
    /\ uses = <<UseGroup("decl", <<"Tempest">>,
                         <<Clause(FALSE, <<"view">>, <<"render">>)>>)>>
    /\ calls = <<CallStmt(FALSE, <<"render">>, <<Pos(Str("a"))>>)>>
    /\ res.ok
    /\ DOMAIN res.val.imports = Seeds \cup {"view"}
    /\ res.val.imports["view"] = FunctionImport
    /\ res.val.calls = <<>>

\* `use function Tempest\{helper as view};` registers "view"
C28_WitnessAliasView ==
    /\ op = "analyze_imports"
    /\ uses = <<UseGroup("decl", <<"Tempest">>,
                         <<Clause(FALSE, <<"helper">>, <<"view">>)>>)>>
    /\ res.ok
    /\ DOMAIN res.val = Seeds \cup {"view"}
    /\ res.val["view"] = FunctionImport

\* the 1-based line of the byte after offset k of the text: one more than the
\* line feeds before it
LineAt(k) == 1 + Cardinality({n \in 1..k : SubSeq(text, n, n) = "\n"})

\* the lines of a list of calls do not decrease and are at least 1
LinesAscend(cs) ==
    /\ \A i \in 1..Len(cs) : cs[i].line >= 1
    /\ \A i \in 1..Len(cs) : \A j \in i..Len(cs) : cs[i].line <= cs[j].line

\* C30: the line of every call find_function_calls returns is the 1-based
\* line on which its call node starts, and along the list, as along the
\* lists of correlated calls, the lines never decrease.
C30_LinesAscend ==
    /\ op = "find_function_calls" =>
           LET Lined(call_nodes) ==
                   /\ Len(res.val) = Len(call_nodes)
                   /\ \A i \in 1..Len(call_nodes) :
                          res.val[i].line = LineAt(call_nodes[i].sb)
           IN  /\ res.ok
               /\ Lined(OfKind(PreOrder(tree), "function_call_expression"))
               /\ LinesAscend(res.val)
    /\ op = "find_view_calls" => res.ok /\ LinesAscend(res.val)
    /\ op = "analyze" => res.ok /\ LinesAscend(res.val.calls)

\* a call over three lines with a call on its first and one on its third
\* line, after a one-line call: lines 2, 3, 3, 5
C30_Witness ==
    /\ op = "find_function_calls"
    /\ uses = <<>>
    /\ Len(calls) = 2
    /\ calls[1] = CallStmt(FALSE, <<"view">>, <<Pos(Str("a"))>>)
    /\ Len(calls[2].args) = 2
    /\ calls[2].args[1].expr.e = "call"
    /\ res.ok
    /\ Len(res.val) = 4
    /\ <<res.val[1].line, res.val[2].line, res.val[3].line, res.val[4].line>>
           = <<2, 3, 3, 5>>

\* the call returned Err
ReturnedErr(r) == ~r.ok /\ ~IsPanic(r)

\* C25: for every tree and text analyze_imports and find_function_calls
\* return Ok, so find_view_calls and analyze never return an error and
\* analyze_document never logs one of its two ERROR messages.
C25_AlwaysOk ==
    /\ op \in {"analyze_imports", "find_function_calls"} => res.ok
    /\ op \in {"find_view_calls", "analyze"} => ~ReturnedErr(res)
    /\ (op = "analyze_document" /\ res.ok) =>
           \A i \in 1..Len(res.val) : res.val[i].type # "ERROR"

====
